---- MODULE Spec2Model ----
(***************************************************************************)
(* Model of the VISPR front-end client (heytitle/virelay):                 *)
(*   - IndexPage, the selection state controller of a project page         *)
(*     (cascading selector setters, Analysis refetch, plot data and        *)
(*     selection handling);                                                *)
(*   - the backend client gateways, as the requests they issue and the     *)
(*     entities they build from the responses.                             *)
(* JavaScript arrays are 0-based; the sequences here are 1-based, so       *)
(* index i of the source is position i + 1 of a sequence.                  *)
(***************************************************************************)
EXTENDS Integers, Sequences, FiniteSets, TLC

VARIABLES
    page,       \* the IndexPage instance: its fields, its suspended async
                \* calls (requests in flight), and the log `calls` of the
                \* refreshAnalysisAsync calls made by the handler that ran last
    lastEvent,  \* the event-loop task that ran last (history variable)
    budget,     \* how many more events of the user this run takes: route
                \* and selector changes, axis changes, plot events
    backend,    \* what the backend serves: the size of its Analysis payloads,
                \* or one payload for every request
    slider      \* a BeforeAndAfterSliderComponent: the variables of its
                \* ngAfterViewInit closure and the styles of its elements;
                \* absent where no slider is looked at

vars == <<page, lastEvent, budget, backend, slider>>

(***************************************************************************)
(* Bounds of the model.                                                    *)
(***************************************************************************)
MaxUserEvents == 1      \* user events (route changes, selector changes) of a run
MaxAxisEvents == 1      \* user changes of an axis selector of a run
SmallPoints == 2        \* points of an ordinary Analysis payload
MaxPlotEvents == 1      \* selection and deselection events of a run
MaxPlotAxisEvents == 1  \* axis selections of a run that also takes plot events
MaxPlotUserEvents == 1  \* user events of a run that also takes plot events
MaxOverlapEvents == 2   \* plot events of a run that takes nothing but plot events
MaxHoverEvents == 3     \* hover and unhover events of a run
MaxGraphPoints == 3     \* points of an arbitrary Analysis payload
MaxGraphAxisEvents == 1 \* axis selections of a run on an arbitrary payload
BigPoints == 22         \* points of an Analysis payload larger than the cap

\* The most points of one selection that are loaded (attributionIndices.slice).
SelectionCap == 20

(***************************************************************************)
(* JavaScript values.                                                      *)
(***************************************************************************)
\* null / undefined of an object- or array-typed field.
Null == [null |-> TRUE]
\* A string-typed field that is unset: the empty string is falsy like undefined.
None == ""
\* The value of reading an array position that does not exist.
Undefined == -1

\* array[i] of the source (0-based), undefined when out of range.
At(array, i) == IF i + 1 \in DOMAIN array THEN array[i + 1] ELSE Undefined

\* The last element in place of the first.
LastObject(array) == IF Len(array) > 0 THEN array[Len(array)] ELSE Null

\* array[0] of an array of objects, undefined (Null) when the array is empty.
FirstObject(array) == IF Len(array) > 0 THEN array[1] ELSE Null
\* array[0] of an array of strings.
FirstString(array) == IF Len(array) > 0 THEN array[1] ELSE None

\* Array.prototype.filter: the elements that Keep holds of, in array order.
Filter(array, Keep(_)) == SelectSeq(array, Keep)

\* Array.prototype.map
Map(array, F(_)) == [i \in 1..Len(array) |-> F(array[i])]

\* A membership test that never finds the element.
NeverIn(array, x) == TRUE

\* Array.prototype.indexOf(x) === -1
NotIn(array, x) == \A i \in 1..Len(array) : array[i] # x

(***************************************************************************)
(* The backend: the projects it serves and the Analysis it answers with.   *)
(* The entities are immutable snapshots; the client never authors them.    *)
(***************************************************************************)
Category(name) == [name |-> name, humanReadableName |-> name]

AnalysisMethod(name, categories, clusterings, embeddings) ==
    [name |-> name, categories |-> Map(categories, Category),
     clusterings |-> clusterings, embeddings |-> embeddings]

\* Project 1 offers two methods: the first lists no "tsne", the second lists
\* "tsne" after another embedding. Project 2 offers one method, which lists
\* "tsne" after another embedding too.
Projects ==
    <<[id |-> 1, name |-> "first",
       analysisMethods |->
         <<AnalysisMethod("gradient", <<"cat-3">>, <<"dbscan">>,
                          <<"pca", "umap">>),
           AnalysisMethod("lrp", <<"cat-1", "cat-2">>,
                          <<"kmeans-5", "kmeans-10">>, <<"umap", "tsne">>)>>],
      [id |-> 2, name |-> "second",
       analysisMethods |->
         <<AnalysisMethod("sa", <<"cat-1", "cat-2">>,
                          <<"kmeans-5", "kmeans-10">>, <<"pca", "tsne">>)>>]>>

ProjectIds == DOMAIN Projects

\* Dimensionality N of the points of an embedding.
Dimensions(embedding) == IF embedding = "pca" THEN 3 ELSE 2

\* Cluster identifiers are integers and not contiguous.
ClusterOf(clustering, i) ==
    IF clustering = "kmeans-5" THEN (IF i % 2 = 1 THEN 3 ELSE 1)
    ELSE IF clustering = "kmeans-10" THEN (IF i % 3 = 0 THEN 7 ELSE 4)
    ELSE 0

MethodIndex(name) ==
    IF name = "lrp" THEN 1 ELSE IF name = "gradient" THEN 2 ELSE 3

\* The request key of an Analysis fetch.
AnalysisKey(projectId, analysisMethod, category, clustering, embedding) ==
    [projectId |-> projectId, analysisMethod |-> analysisMethod,
     category |-> category, clustering |-> clustering, embedding |-> embedding]

\* The Analysis the backend answers with. Payloads of different keys differ.
AnalysisFor(key, nPoints) ==
    [categoryName |-> key.category,
     humanReadableCategoryName |-> key.category,
     clusteringName |-> key.clustering,
     embeddingName |-> key.embedding,
     embedding |->
        [i \in 1..nPoints |->
            [cluster |-> ClusterOf(key.clustering, i),
             attributionIndex |->
                100 * key.projectId + 10 * MethodIndex(key.analysisMethod) + i,
             value |-> [d \in 1..Dimensions(key.embedding) |-> 10 * i + d]]]]

\* The cluster identifiers, attribution indices and dimensionalities that
\* arbitrary payloads are made of.
GraphClusters == {1, 2}
GraphIndices == {5, 6}
GraphDimensions == {2, 3}

\* Arbitrary Analysis payloads: any number of points up to the bound, each in
\* any cluster and with any attribution index, all of one dimensionality.
Payloads ==
    {[categoryName |-> "any", humanReadableCategoryName |-> "any",
      clusteringName |-> "any", embeddingName |-> "any",
      embedding |->
        [i \in 1..n |->
            [cluster |-> points[i].cluster,
             attributionIndex |-> points[i].attributionIndex,
             value |-> [d \in 1..dimensions |-> 10 * i + d]]]] :
        <<n, points, dimensions>> \in
            UNION {{<<n, points, dimensions>> :
                       points \in [1..n -> [cluster : GraphClusters,
                                            attributionIndex : GraphIndices]],
                       dimensions \in GraphDimensions} :
                   n \in 0..MaxGraphPoints}}

\* The request key of an Attribution or of a dataset Sample fetch.
IndexKey(projectId, index) == [projectId |-> projectId, index |-> index]

\* The Attribution the backend answers with; its sample is attached later.
AttributionFor(key) ==
    [index |-> key.index, projectId |-> key.projectId, sample |-> Null]

\* The dataset Sample the backend answers with.
SampleFor(key) == [index |-> key.index, projectId |-> key.projectId]

(***************************************************************************)
(* IndexPage                                                               *)
(***************************************************************************)
\* The page after construction: the constructor sets the two axis indices;
\* every other field is undefined.
NewPage ==
    [id |-> 0,
     project |-> Null,
     isLoading |-> FALSE,
     selectedAnalysisMethod |-> Null,
     selectedCategory |-> Null,
     selectedClustering |-> None,
     selectedEmbedding |-> None,
     horizontalAxisDimensionIndex |-> 0,
     verticalAxisDimensionIndex |-> 1,
     analysis |-> Null,
     graphData |-> Null,
     selectedAttributions |-> Null,
     isLoadingSelection |-> FALSE,
     initialized |-> FALSE,
     projectFetches |-> <<>>,    \* getByIdAsync calls awaited
     analysisFetches |-> <<>>,   \* analysesService.getAsync calls awaited
     selections |-> <<>>,        \* onSelectedAsync calls awaiting a Promise.all
     isHovering |-> FALSE,
     datasetSampleHoverPreview |-> Null,
     hovers |-> <<>>,            \* onHoverAsync calls awaiting a request
     colorMaps |-> Null,
     selectedColorMap |-> Null,
     colorMapFetches |-> 0,      \* colorMapsService.getAsync calls awaited
     calls |-> <<>>]

\* The page without the log of its last handler.
Fields(s) == [s EXCEPT !.calls = <<>>]

\* The sequence without its i-th element.
Without(seq, i) == SubSeq(seq, 1, i - 1) \o SubSeq(seq, i + 1, Len(seq))

\* The dimensions counted from one.
EmbeddingDimensionsFromOne(s) ==
    IF s.analysis = Null \/ Len(s.analysis.embedding) = 0 THEN <<>>
    ELSE [i \in 1..Len(s.analysis.embedding[1].value) |-> i]

\* get embeddingDimensions
EmbeddingDimensions(s) ==
    IF s.analysis = Null \/ Len(s.analysis.embedding) = 0 THEN <<>>
    ELSE [i \in 1..Len(s.analysis.embedding[1].value) |-> i - 1]

\* The distinct cluster identifiers, the one that appeared last coming first.
RECURSIVE ClustersLatestFirst(_, _)
ClustersLatestFirst(clusterOfPoint, clusters) ==
    IF clusterOfPoint = <<>> THEN clusters
    ELSE ClustersLatestFirst(Tail(clusterOfPoint),
                  IF NotIn(clusters, Head(clusterOfPoint))
                  THEN <<Head(clusterOfPoint)>> \o clusters
                  ELSE clusters)

\* The distinct cluster identifiers, in order of first appearance.
RECURSIVE Clusters(_, _)
Clusters(clusterOfPoint, clusters) ==
    IF clusterOfPoint = <<>> THEN clusters
    ELSE Clusters(Tail(clusterOfPoint),
                  IF NotIn(clusters, Head(clusterOfPoint))
                  THEN Append(clusters, Head(clusterOfPoint))
                  ELSE clusters)

ClusterIs(cluster, embedding) == embedding.cluster = cluster

\* One series of the plot: the points of one cluster.
Series(embeddings, cluster, horizontal, vertical) ==
    LET InCluster(embedding) == ClusterIs(cluster, embedding)
        embeddingsInCluster == Filter(embeddings, InCluster)
        X(embedding) == At(embedding.value, horizontal)
        Y(embedding) == At(embedding.value, vertical)
        Index(embedding) == embedding.attributionIndex
    IN  [name |-> cluster,
         x |-> Map(embeddingsInCluster, X),
         y |-> Map(embeddingsInCluster, Y),
         attributionIndices |-> Map(embeddingsInCluster, Index)]

\* The graphData that refreshPlot builds from an analysis and two axis indices.
GraphData(analysis, horizontal, vertical) ==
    LET ClusterOfPoint(embedding) == embedding.cluster
        clusters == Clusters(Map(analysis.embedding, ClusterOfPoint), <<>>)
        SeriesOf(cluster) == Series(analysis.embedding, cluster, horizontal, vertical)
    IN  [series |-> Map(clusters, SeriesOf)]

\* A refresh of the plot that drops the plot data when there is no analysis.
RefreshPlotClearing(s) ==
    IF s.analysis = Null THEN [s EXCEPT !.graphData = Null]
    ELSE [s EXCEPT !.graphData =
            GraphData(s.analysis, s.horizontalAxisDimensionIndex,
                      s.verticalAxisDimensionIndex)]

\* refreshPlot()
RefreshPlot(s) ==
    IF s.analysis = Null THEN s
    ELSE [s EXCEPT !.graphData =
            GraphData(s.analysis, s.horizontalAxisDimensionIndex,
                      s.verticalAxisDimensionIndex)]

\* set analysis(value)
SetAnalysis(s, value) == RefreshPlot([s EXCEPT !.analysis = value])

\* A guard that looks at the analysis method alone.
AnalysisMethodUnset(s) == s.selectedAnalysisMethod = Null

\* Some selector is unset: the guard of refreshAnalysisAsync.
SelectionIncomplete(s) ==
    \/ s.selectedAnalysisMethod = Null
    \/ s.selectedCategory = Null
    \/ s.selectedClustering = None
    \/ s.selectedEmbedding = None

\* The key of the Analysis fetch that refreshAnalysisAsync issues in state s.
CurrentKey(s) ==
    AnalysisKey(s.project.id, s.selectedAnalysisMethod.name,
                s.selectedCategory.name, s.selectedClustering,
                s.selectedEmbedding)

\* A refresh that keeps the selected attributions.
RefreshAnalysisKeepingSelection(s) ==
    IF SelectionIncomplete(s) THEN s
    ELSE [s EXCEPT !.isLoading = TRUE,
                   !.analysisFetches = Append(@, CurrentKey(s))]

\* refreshAnalysisAsync(), up to its await.
RefreshAnalysisStart(s) ==
    IF SelectionIncomplete(s) THEN s
    ELSE [s EXCEPT !.isLoading = TRUE,
                   !.selectedAttributions = Null,
                   !.analysisFetches = Append(@, CurrentKey(s))]

\* refreshAnalysisAsync() as called by a handler: the call is logged with the
\* page it was made on.
RefreshAnalysisAsync(s) ==
    [RefreshAnalysisStart(s) EXCEPT !.calls = Append(s.calls, Fields(s))]

\* A setter of the horizontal axis that asks for the Analysis again.
SetHorizontalAxisRefetching(s, value) ==
    RefreshAnalysisAsync(RefreshPlot([s EXCEPT !.horizontalAxisDimensionIndex = value]))

\* set horizontalAxisDimensionIndex(value)
SetHorizontalAxisDimensionIndex(s, value) ==
    RefreshPlot([s EXCEPT !.horizontalAxisDimensionIndex = value])

\* set verticalAxisDimensionIndex(value)
SetVerticalAxisDimensionIndex(s, value) ==
    RefreshPlot([s EXCEPT !.verticalAxisDimensionIndex = value])

\* set selectedCategory(value)
SetSelectedCategory(s, value) ==
    LET s1 == [s EXCEPT !.selectedCategory = value]
    IN  IF value # Null THEN RefreshAnalysisAsync(s1) ELSE s1

\* A clustering setter that leaves the Analysis as it is.
SetSelectedClusteringWithoutRefetch(s, value) ==
    [s EXCEPT !.selectedClustering = value]

\* set selectedClustering(value)
SetSelectedClustering(s, value) ==
    LET s1 == [s EXCEPT !.selectedClustering = value]
    IN  IF value # None THEN RefreshAnalysisAsync(s1) ELSE s1

\* A setter of the embedding that leaves the axes alone.
SetSelectedEmbeddingOnly(s, value) ==
    LET s1 == [s EXCEPT !.selectedEmbedding = value]
    IN  IF value # None THEN RefreshAnalysisAsync(s1) ELSE s1

\* set selectedEmbedding(value)
SetSelectedEmbedding(s, value) ==
    LET s1 == [s EXCEPT !.selectedEmbedding = value,
                        !.horizontalAxisDimensionIndex = 0,
                        !.verticalAxisDimensionIndex = 1]
    IN  IF value # None THEN RefreshAnalysisAsync(s1) ELSE s1

\* A policy that takes the first embedding whatever the list holds.
FirstEmbedding(method) == FirstString(method.embeddings)

\* The embedding chosen for a method: "tsne" when listed, else the first.
DefaultEmbedding(method) ==
    IF Len(Filter(method.embeddings, LAMBDA embedding : embedding = "tsne")) > 0
    THEN "tsne"
    ELSE FirstString(method.embeddings)

\* A method setter that leaves the refetch to the setters it calls.
SetSelectedAnalysisMethodWithoutRefetch(s, value) ==
    LET s1 == [s EXCEPT !.selectedAnalysisMethod = value]
        s2 == SetSelectedCategory(s1, FirstObject(s1.selectedAnalysisMethod.categories))
        s3 == SetSelectedClustering(s2, FirstString(s2.selectedAnalysisMethod.clusterings))
        s4 == SetSelectedEmbedding(s3, DefaultEmbedding(s3.selectedAnalysisMethod))
    IN  IF value # Null THEN s4 ELSE s1

\* A method setter that, given no method, clears the other selectors too.
SetSelectedAnalysisMethodClearing(s, value) ==
    LET s1 == [s EXCEPT !.selectedAnalysisMethod = value]
        s2 == SetSelectedCategory(s1, FirstObject(s1.selectedAnalysisMethod.categories))
        s3 == SetSelectedClustering(s2, FirstString(s2.selectedAnalysisMethod.clusterings))
        s4 == SetSelectedEmbedding(s3, DefaultEmbedding(s3.selectedAnalysisMethod))
    IN  IF value # Null THEN RefreshAnalysisAsync(s4)
        ELSE [s1 EXCEPT !.selectedCategory = Null,
                        !.selectedClustering = None,
                        !.selectedEmbedding = None]

\* A method setter that keeps the clustering it finds.
SetSelectedAnalysisMethodKeepingClustering(s, value) ==
    LET s1 == [s EXCEPT !.selectedAnalysisMethod = value]
        s2 == SetSelectedCategory(s1, FirstObject(s1.selectedAnalysisMethod.categories))
        s4 == SetSelectedEmbedding(s2, DefaultEmbedding(s2.selectedAnalysisMethod))
    IN  IF value # Null THEN RefreshAnalysisAsync(s4) ELSE s1

\* set selectedAnalysisMethod(value)
SetSelectedAnalysisMethod(s, value) ==
    LET s1 == [s EXCEPT !.selectedAnalysisMethod = value]
        s2 == SetSelectedCategory(s1, FirstObject(s1.selectedAnalysisMethod.categories))
        s3 == SetSelectedClustering(s2, FirstString(s2.selectedAnalysisMethod.clusterings))
        s4 == SetSelectedEmbedding(s3, DefaultEmbedding(s3.selectedAnalysisMethod))
    IN  IF value # Null THEN RefreshAnalysisAsync(s4) ELSE s1

\* refreshProjectAsync(), up to its first await.
RefreshProjectStart(s) ==
    [s EXCEPT !.isLoading = TRUE, !.projectFetches = Append(@, s.id)]

\* refreshProjectAsync(), from the project's arrival to its second await.
RefreshProjectLoaded(s, project) ==
    LET s1 == [s EXCEPT !.project = project, !.selectedAttributions = Null]
        s2 == SetSelectedAnalysisMethod(s1, FirstObject(s1.project.analysisMethods))
        s3 == SetSelectedCategory(s2, FirstObject(s2.selectedAnalysisMethod.categories))
        s4 == SetSelectedClustering(s3, FirstString(s3.selectedAnalysisMethod.clusterings))
        s5 == SetSelectedEmbedding(s4, DefaultEmbedding(s4.selectedAnalysisMethod))
    IN  RefreshAnalysisAsync(s5)

\* An arrival guarded by a check of the selectors: an Analysis that is not the
\* one of the current selectors is dropped.
RefreshAnalysisLoadedIfCurrent(s, analysis) ==
    IF /\ analysis.categoryName = s.selectedCategory.name
       /\ analysis.clusteringName = s.selectedClustering
       /\ analysis.embeddingName = s.selectedEmbedding
    THEN [SetAnalysis(s, analysis) EXCEPT !.isLoading = FALSE]
    ELSE [s EXCEPT !.isLoading = FALSE]

\* refreshAnalysisAsync(), from the Analysis' arrival to its end. When the call
\* was the one refreshProjectAsync awaits, that function then clears the
\* loading flag once more and ends.
RefreshAnalysisLoaded(s, analysis) ==
    [SetAnalysis(s, analysis) EXCEPT !.isLoading = FALSE]

\* A refresh that clears the loading flag when its request fails.
RefreshAnalysisFailedEndingLoading(s) == [s EXCEPT !.isLoading = FALSE]

\* refreshAnalysisAsync() when its request fails: the await throws, nothing
\* catches it, and the call (and a refreshProjectAsync awaiting it) ends with
\* the page as it is.
RefreshAnalysisFailed(s) == s


(***************************************************************************)
(* Selection handling. An onSelectedAsync call awaits two batches of       *)
(* requests (Promise.all). The requests of a batch are answered one by one *)
(* in any order; Promise.all returns the answers in request order once all *)
(* have arrived, so a suspended call records how many answers of its batch *)
(* have arrived, not which.                                                *)
(***************************************************************************)
\* The points of the plot, series by series: what a selection event can hold.
RECURSIVE PlotPoints(_, _)
PlotPoints(series, from) ==
    IF from > Len(series) THEN <<>>
    ELSE [i \in 1..Len(series[from].attributionIndices) |->
              [data |-> series[from], pointIndex |-> i - 1]]
         \o PlotPoints(series, from + 1)

\* dataPoint.data.attributionIndices[dataPoint.pointIndex]
AttributionIndexOf(dataPoint) ==
    At(dataPoint.data.attributionIndices, dataPoint.pointIndex)

\* A slice that keeps the whole array.
SliceAll(array, end) == array

\* attributionIndices.slice(0, 20)
Slice(array, end) == SubSeq(array, 1, IF Len(array) < end THEN Len(array) ELSE end)

\* Dataset requests issued for each attribution as soon as it has arrived.
EagerSampleRequests(s, selection, loaded) ==
    Map(SubSeq(selection.attributionRequests, 1, loaded),
        LAMBDA request : IndexKey(s.project.id, AttributionFor(request).index))

\* The dataset requests of the second batch: one for each loaded attribution,
\* issued once the whole first batch has arrived.
SampleRequests(s, selection, loaded) ==
    IF loaded = Len(selection.attributionRequests)
    THEN Map(selection.attributionRequests,
             LAMBDA request : IndexKey(s.project.id, AttributionFor(request).index))
    ELSE <<>>

\* sample.index === attribution.index
SampleMatches(sample, attribution) == sample.index = attribution.index

\* A join that takes the first sample, matching or not.
JoinFirstSample(attribution, selectedDatasetSamples) ==
    [attribution EXCEPT !.sample = FirstObject(selectedDatasetSamples)]

\* attribution.sample = selectedDatasetSamples.filter(...)[0]
JoinSample(attribution, selectedDatasetSamples) ==
    [attribution EXCEPT !.sample =
        FirstObject(Filter(selectedDatasetSamples,
                           LAMBDA sample : SampleMatches(sample, attribution)))]

\* A second batch whose arrival joins the samples and leaves the loading flag
\* of the selection set.
SelectionSamplesLoadedStillLoading(s, k) ==
    LET selection == s.selections[k]
        selectedDatasetSamples == Map(selection.sampleRequests, SampleFor)
        ended == [s EXCEPT !.selections = Without(@, k)]
    IN  IF s.selectedAttributions = Null THEN ended
        ELSE [ended EXCEPT
                !.selectedAttributions =
                    [items |-> Map(s.selectedAttributions.items,
                                   LAMBDA attribution :
                                      JoinSample(attribution, selectedDatasetSamples))]]

\* onSelectedAsync(), from the arrival of the second batch to its end. Iterating
\* a selectedAttributions that is null throws, which ends the call at once.
SelectionSamplesLoaded(s, k) ==
    LET selection == s.selections[k]
        selectedDatasetSamples == Map(selection.sampleRequests, SampleFor)
        ended == [s EXCEPT !.selections = Without(@, k)]
    IN  IF s.selectedAttributions = Null THEN ended
        ELSE [ended EXCEPT
                !.selectedAttributions =
                    [items |-> Map(s.selectedAttributions.items,
                                   LAMBDA attribution :
                                      JoinSample(attribution, selectedDatasetSamples))],
                !.isLoadingSelection = FALSE]

\* An answer of the second batch arrives.
SampleArrived(s, k) ==
    LET loaded == s.selections[k].samplesLoaded + 1
        s1 == [s EXCEPT !.selections[k].samplesLoaded = loaded]
    IN  IF loaded = Len(s.selections[k].sampleRequests)
        THEN SelectionSamplesLoaded(s1, k)
        ELSE s1

\* onSelectedAsync() with `loaded` answers of its first batch arrived. Once all
\* have arrived the call goes on: it assigns selectedAttributions and issues
\* the second batch, which is complete at once when it is empty.
AttributionsLoaded(s, k, loaded) ==
    LET selection == s.selections[k]
        complete == loaded = Len(selection.attributionRequests)
        s1 == [s EXCEPT
                 !.selections[k].attributionsLoaded = loaded,
                 !.selections[k].sampleRequests = SampleRequests(s, selection, loaded),
                 !.selectedAttributions =
                    IF complete
                    THEN [items |-> Map(selection.attributionRequests, AttributionFor)]
                    ELSE @]
    IN  IF complete /\ Len(s1.selections[k].sampleRequests) = 0
        THEN SelectionSamplesLoaded(s1, k)
        ELSE s1

\* An answer of the first batch arrives.
AttributionArrived(s, k) ==
    AttributionsLoaded(s, k, s.selections[k].attributionsLoaded + 1)

\* onSelectedAsync() when a request of the batch it awaits fails: Promise.all
\* rejects, the await throws, nothing catches it, and the call ends with the
\* page as it is.
SelectionFailed(s, k) == [s EXCEPT !.selections = Without(@, k)]

\* onSelectedAsync(eventInfo), up to its first await; eventInfo is Null when
\* the plot passes none. An empty first batch is complete at once. The call is
\* logged with the attribution indices of all points of its event.
OnSelectedAsync(s, eventInfo) ==
    IF eventInfo = Null THEN s
    ELSE LET attributionIndices ==
                Slice(Map(eventInfo.points, AttributionIndexOf), SelectionCap)
             selection ==
                [attributionRequests |->
                    Map(attributionIndices,
                        LAMBDA index : IndexKey(s.project.id, index)),
                 attributionsLoaded |-> 0,
                 sampleRequests |-> <<>>,
                 samplesLoaded |-> 0,
                 points |-> Map(eventInfo.points, AttributionIndexOf)]
             s1 == [s EXCEPT !.isLoadingSelection = TRUE,
                             !.selections = Append(@, selection)]
         IN  IF Len(attributionIndices) = 0
             THEN AttributionsLoaded(s1, Len(s1.selections), 0)
             ELSE s1

\* A hover handler that asks for the dataset sample at once.
OnHoverFetchingSample(s, eventInfo) ==
    [s EXCEPT
        !.isHovering = TRUE,
        !.hovers = Append(@,
            [stage |-> "sample",
             request |-> IndexKey(s.project.id,
                                  AttributionIndexOf(eventInfo.points[1]))])]

\* onHoverAsync(eventInfo), up to its first await: the Attribution of the first
\* point of the event is requested.
OnHoverAsync(s, eventInfo) ==
    [s EXCEPT
        !.isHovering = TRUE,
        !.hovers = Append(@,
            [stage |-> "attribution",
             request |-> IndexKey(s.project.id,
                                  AttributionIndexOf(eventInfo.points[1]))])]

\* onHoverAsync(), from the Attribution's arrival to its second await: the
\* dataset sample of the attribution's index is requested.
HoverAttributionArrived(s, k) ==
    LET attribution == AttributionFor(s.hovers[k].request)
    IN  [s EXCEPT !.hovers[k] =
            [stage |-> "sample",
             request |-> IndexKey(s.project.id, attribution.index)]]

\* onHoverAsync(), from the dataset sample's arrival to its end.
HoverSampleArrived(s, k) ==
    [s EXCEPT !.datasetSampleHoverPreview = SampleFor(s.hovers[k].request),
              !.hovers = Without(@, k)]

\* An unhover handler that leaves the preview in place.
OnUnhoverKeepingPreview(s) == [s EXCEPT !.isHovering = FALSE]

\* onUnhover()
OnUnhover(s) ==
    [s EXCEPT !.isHovering = FALSE, !.datasetSampleHoverPreview = Null]

\* A deselect handler that also ends the loading of the selection.
OnDeselectEndingLoading(s) ==
    [s EXCEPT !.selectedAttributions = Null, !.isLoadingSelection = FALSE]

\* onDeselect()
OnDeselect(s) == [s EXCEPT !.selectedAttributions = Null]

\* A handler starts with an empty log.
Begin(s) == [s EXCEPT !.calls = <<>>]

(***************************************************************************)
(* The backend gateways. Each operation builds a URL and hands it to the   *)
(* HTTP client; `requests` is the sequence of requests the client has sent, *)
(* each pending, answered or failed.                                       *)
(***************************************************************************)
\* environment.apiBaseUrl
apiBaseUrl == "http://localhost:8080"

\* An HTTP client that answers from its earlier requests to the same URL.
HttpGetCached(requests, url) ==
    IF \E i \in DOMAIN requests : requests[i].url = url
    THEN requests
    ELSE Append(requests, [method |-> "GET", url |-> url, state |-> "pending"])

\* httpClient.get(url, {headers}).pipe(map(...)).toPromise(): subscribing the
\* observable once sends one request.
HttpGet(requests, url) ==
    Append(requests, [method |-> "GET", url |-> url, state |-> "pending"])

\* AnalysesService.getAsync(projectId, analysisMethod, category, clustering, embedding)
AnalysesServiceGetAsync(requests, projectId, analysisMethod, category, clustering, embedding) ==
    HttpGet(requests,
            apiBaseUrl \o "/api/projects/" \o ToString(projectId)
                \o "/analyses/" \o analysisMethod
                \o "?category=" \o category
                \o "&clustering=" \o clustering
                \o "&embedding=" \o embedding)

\* AttributionsService.getAsync(projectId, index)
AttributionsServiceGetAsync(requests, projectId, index) ==
    HttpGet(requests,
            apiBaseUrl \o "/api/projects/" \o ToString(projectId)
                \o "/attributions/" \o ToString(index))

\* DatasetService.getAsync(projectId, index)
DatasetServiceGetAsync(requests, projectId, index) ==
    HttpGet(requests,
            apiBaseUrl \o "/api/projects/" \o ToString(projectId)
                \o "/dataset/" \o ToString(index))

\* ColorMapsService.getAsync()
ColorMapsServiceGetAsync(requests) ==
    HttpGet(requests, apiBaseUrl \o "/api/color-maps")

\* ProjectsService.getAsync()
ProjectsServiceGetAsync(requests) ==
    HttpGet(requests, apiBaseUrl \o "/api/projects")

\* ProjectsService.getByIdAsync(id)
ProjectsServiceGetByIdAsync(requests, id) ==
    HttpGet(requests, apiBaseUrl \o "/api/projects/" \o ToString(id))

(***************************************************************************)
(* The entities the gateways make of the payloads they receive. A payload  *)
(* is an object of the heap; a string field is copied into the entity, the *)
(* urls object of an Attribution payload is shared with the entity: the    *)
(* entity holds a reference to the payload that owns it.                   *)
(***************************************************************************)
\* new Sample(sample, baseUrl)
Sample(sample, baseUrl) ==
    IF sample = Null THEN Null
    ELSE [kind |-> "sample", index |-> sample.index,
          url |-> IF baseUrl # None THEN baseUrl \o sample.url ELSE sample.url]

\* new ColorMap(colorMap, baseUrl)
ColorMap(colorMap, baseUrl) ==
    IF colorMap = Null THEN Null
    ELSE [kind |-> "colorMap", name |-> colorMap.name,
          url |-> IF baseUrl # None THEN baseUrl \o colorMap.url ELSE colorMap.url]

\* new Attribution(attribution, baseUrl), the payload being the object `ref`
\* of the heap: this.urls = attribution.urls makes the entity share the
\* payload's urls object, and the loop over this.urls writes into that object.
\* The result is the entity and the heap after the call.
Attribution(heap, ref, baseUrl) ==
    LET attribution == heap[ref]
    IN  [heap |-> IF baseUrl # None
                  THEN [heap EXCEPT ![ref].urls =
                            [colorMap \in DOMAIN @ |-> baseUrl \o @[colorMap]]]
                  ELSE heap,
         entity |-> [kind |-> "attribution", index |-> attribution.index,
                     url |-> IF baseUrl # None THEN baseUrl \o attribution.url
                             ELSE attribution.url,
                     urls |-> ref]]

(***************************************************************************)
(* BeforeAndAfterSliderComponent. Widths and pointer positions are whole   *)
(* pixels; the lengths the component writes into styles (the handle's left *)
(* offset, the right boundary of the clip rectangle) are halves of widths, *)
(* so they are counted in half pixels: the style "50.5px" is 101.          *)
(***************************************************************************)
\* The slider of a view: its image and handle widths (getBoundingClientRect),
\* the stylesheet's left: 0 and no clip yet, and no closure variables yet.
NewSlider(imageWidth, sliderHandleWidth, sliderHandleHeight) ==
    [imageWidth |-> imageWidth,
     sliderHandleWidth |-> sliderHandleWidth,
     sliderHandleHeight |-> sliderHandleHeight,
     left |-> 0,
     clip |-> Null,
     isMouseDown |-> FALSE,
     sliderHandlePosition |-> Undefined,
     initialized |-> FALSE]

\* parseInt(style, 10) of a length in half pixels: the whole pixels before the
\* decimal point, the sign kept ("50.5px" is 50, "-24.5px" is -24).
ParseInt(halves) ==
    IF halves >= 0 THEN halves \div 2 ELSE -((-halves) \div 2)

\* A view initialization that puts the left edge of the handle on the
\* midpoint of the image.
NgAfterViewInitLeftAtMidpoint(s) ==
    [s EXCEPT
        !.left = s.imageWidth,
        !.clip = [right |-> s.imageWidth, bottom |-> 999],
        !.isMouseDown = FALSE,
        !.initialized = TRUE]

\* ngAfterViewInit(), up to the registration of the listeners.
NgAfterViewInit(s) ==
    [s EXCEPT
        !.left = s.imageWidth - s.sliderHandleWidth,
        !.clip = [right |-> s.imageWidth, bottom |-> 999],
        !.isMouseDown = FALSE,
        !.initialized = TRUE]

\* The mousedown listener of the handle.
OnMouseDown(s, clientX) ==
    [s EXCEPT !.sliderHandlePosition = clientX, !.isMouseDown = TRUE]

\* The mouseup listener of the document.
OnMouseUp(s) == [s EXCEPT !.isMouseDown = FALSE]

\* The mouseleave listener of the document.
OnMouseLeave(s) == [s EXCEPT !.isMouseDown = FALSE]

\* A mousemove listener that follows the pointer whether or not it is pressed.
OnMouseMoveAlways(s, clientX) ==
    LET from == IF s.sliderHandlePosition = Undefined THEN clientX
                ELSE s.sliderHandlePosition
        left == 2 * (ParseInt(s.left) + (clientX - from))
    IN  [s EXCEPT
            !.left = left,
            !.sliderHandlePosition = clientX,
            !.clip = [right |-> s.sliderHandleWidth + 2 * ParseInt(left),
                      bottom |-> s.sliderHandleHeight]]

\* The mousemove listener of the handle.
OnMouseMove(s, clientX) ==
    IF s.isMouseDown
    THEN LET left == 2 * (ParseInt(s.left) + (clientX - s.sliderHandlePosition))
         IN  [s EXCEPT
                !.left = left,
                !.sliderHandlePosition = clientX,
                !.clip = [right |-> s.sliderHandleWidth + 2 * ParseInt(left),
                          bottom |-> s.sliderHandleHeight]]
    ELSE s

(***************************************************************************)
(* The event loop: one action per task.                                    *)
(***************************************************************************)
\* A color map as the backend serves it.
ColorMapNamed(name) == [name |-> name, url |-> "/api/color-maps/" \o name]

\* The color maps of a backend that is not set up with a list of its own.
DefaultColorMaps == <<ColorMapNamed("gray-red"), ColorMapNamed("black-fire-red")>>

\* The list the backend answers a color map request with.
ServedColorMaps ==
    IF "colorMaps" \in DOMAIN backend THEN backend.colorMaps ELSE DefaultColorMaps

\* colorMapsService.getAsync(), its answer: every color map of the list is
\* made a ColorMap entity.
ColorMapEntities(colorMaps) ==
    Map(colorMaps, LAMBDA colorMap : ColorMap(colorMap, apiBaseUrl))

\* ngOnInit(), up to its await: the route emits the id, refreshProjectAsync
\* is called (and not awaited), and the color maps are requested.
NgOnInitStart(s) ==
    [RefreshProjectStart(s) EXCEPT !.colorMapFetches = @ + 1]

\* ngOnInit(), from the arrival of the color maps to its end: the color map
\* named "black-fire-red" is selected when the list has one, else the first.
NgOnInitLoaded(s, colorMaps) ==
    LET defaultColorMaps ==
            Filter(colorMaps, LAMBDA colorMap : colorMap.name = "black-fire-red")
    IN  [s EXCEPT !.colorMaps = [items |-> colorMaps],
                  !.selectedColorMap =
                      IF Len(defaultColorMaps) > 0
                      THEN FirstObject(defaultColorMaps)
                      ELSE FirstObject(colorMaps),
                  !.colorMapFetches = @ - 1]

\* The page once ngOnInit has run for project `id`, the color maps have
\* arrived and the answer to the project request is at hand.
OpenedPage(id) ==
    LET started == NgOnInitStart([NewPage EXCEPT !.initialized = TRUE, !.id = id])
        loaded == NgOnInitLoaded(started, ColorMapEntities(DefaultColorMaps))
    IN  [loaded EXCEPT !.projectFetches = <<>>]

\* The page once a project and its first Analysis have arrived and no request
\* is in flight.
LoadedPage(id, nPoints) ==
    LET opened == OpenedPage(id)
        project == RefreshProjectLoaded(opened, Projects[id])
        analysis == AnalysisFor(CurrentKey(project), nPoints)
    IN  [RefreshAnalysisLoaded(project, analysis)
            EXCEPT !.analysisFetches = <<>>, !.calls = <<>>]

\* The page once a selection of all points of its plot has been answered in
\* full.
SelectedPage(s) ==
    LET eventInfo == [points |-> PlotPoints(s.graphData.series, 1)]
        selected == OnSelectedAsync(s, eventInfo)
        loaded == AttributionsLoaded(selected, 1, Len(eventInfo.points))
    IN  SelectionSamplesLoaded(
            [loaded EXCEPT !.selections[1].samplesLoaded = Len(eventInfo.points)],
            1)

\* The controller of a page that has a project on display, with or without
\* selected attributions: route changes, selector changes and their answers.
Init ==
    /\ backend = [points |-> SmallPoints, payload |-> Null]
    /\ \E id \in ProjectIds :
          LET shown == LoadedPage(id, SmallPoints)
          IN  \/ /\ page = shown
                 /\ lastEvent = [type |-> "analysisLoaded", key |-> CurrentKey(shown)]
              \/ /\ page = SelectedPage(shown)
                 /\ lastEvent =
                        [type |-> "sampleLoaded", selection |-> 1,
                         points |-> Map(PlotPoints(shown.graphData.series, 1),
                                        AttributionIndexOf)]
    /\ budget = [user |-> MaxUserEvents, axis |-> MaxAxisEvents, plot |-> 0]
    /\ slider = Null

\* A page under construction. The run takes one plot event, so that the
\* onSelectedAsync call it starts runs alone.
InitCap ==
    /\ page = NewPage
    /\ lastEvent = [type |-> "constructed"]
    /\ budget = [user |-> 0, axis |-> 0, plot |-> 1]
    /\ slider = Null
    /\ backend = [points |-> BigPoints, payload |-> Null]

\* ngOnInit: subscribes to the route, which emits the current project id at
\* once, so the project is requested; then the color maps are requested.
NgOnInit ==
    \E id \in ProjectIds :
        /\ ~page.initialized
        /\ page' = NgOnInitStart(
                      [Begin(page) EXCEPT !.initialized = TRUE, !.id = id])
        /\ lastEvent' = [type |-> "ngOnInit", id |-> id]
        /\ UNCHANGED <<budget, backend, slider>>

\* The route changes to another project.
Navigate ==
    \E id \in ProjectIds :
        /\ page.initialized
        /\ id # page.id
        /\ budget.user > 0
        /\ page' = RefreshProjectStart([Begin(page) EXCEPT !.id = id])
        /\ lastEvent' = [type |-> "navigate", id |-> id]
        /\ budget' = [budget EXCEPT !.user = @ - 1]
        /\ UNCHANGED <<backend, slider>>

\* A project request is answered.
ProjectLoaded ==
    \E i \in DOMAIN page.projectFetches :
        LET project == Projects[page.projectFetches[i]]
        IN  /\ page' = RefreshProjectLoaded(
                          [Begin(page) EXCEPT !.projectFetches = Without(@, i)],
                          project)
            /\ lastEvent' = [type |-> "projectLoaded", project |-> project,
                             hadSelection |-> page.selectedAttributions # Null]
            /\ UNCHANGED <<budget, backend, slider>>

\* The Analysis the backend answers a request with: the payload it is set up
\* to serve, or else the one made for the key.
Answer(key) ==
    IF backend.payload # Null THEN backend.payload
    ELSE AnalysisFor(key, backend.points)

\* An Analysis request is answered. The requests are answered in any order;
\* of several requests with the same key, whose answers and continuations are
\* the same, the earliest stands for all.
AnalysisLoaded ==
    \E i \in DOMAIN page.analysisFetches :
        LET key == page.analysisFetches[i]
            analysis == Answer(key)
        IN  /\ \A j \in 1..(i - 1) : page.analysisFetches[j] # key
            /\ page' = RefreshAnalysisLoaded(
                          [Begin(page) EXCEPT !.analysisFetches = Without(@, i)],
                          analysis)
            /\ lastEvent' = [type |-> "analysisLoaded", key |-> key]
            /\ UNCHANGED <<budget, backend, slider>>

\* The user picks another analysis method.
SelectAnalysisMethod ==
    /\ page.project # Null
    /\ budget.user > 0
    /\ \E i \in DOMAIN page.project.analysisMethods :
        LET method == page.project.analysisMethods[i]
        IN  /\ method # page.selectedAnalysisMethod
            /\ page' = SetSelectedAnalysisMethod(Begin(page), method)
            /\ lastEvent' = [type |-> "selectAnalysisMethod", method |-> method]
    /\ budget' = [budget EXCEPT !.user = @ - 1]
    /\ UNCHANGED <<backend, slider>>

\* The user picks another category.
SelectCategory ==
    /\ page.project # Null
    /\ page.selectedAnalysisMethod # Null
    /\ budget.user > 0
    /\ \E i \in DOMAIN page.selectedAnalysisMethod.categories :
        LET category == page.selectedAnalysisMethod.categories[i]
        IN  /\ category # page.selectedCategory
            /\ page' = SetSelectedCategory(Begin(page), category)
            /\ lastEvent' = [type |-> "selectCategory", category |-> category,
                             hadSelection |-> page.selectedAttributions # Null]
    /\ budget' = [budget EXCEPT !.user = @ - 1]
    /\ UNCHANGED <<backend, slider>>

\* The user picks another clustering.
SelectClustering ==
    /\ page.project # Null
    /\ page.selectedAnalysisMethod # Null
    /\ budget.user > 0
    /\ \E i \in DOMAIN page.selectedAnalysisMethod.clusterings :
        LET clustering == page.selectedAnalysisMethod.clusterings[i]
        IN  /\ clustering # page.selectedClustering
            /\ page' = SetSelectedClustering(Begin(page), clustering)
            /\ lastEvent' = [type |-> "selectClustering", clustering |-> clustering]
    /\ budget' = [budget EXCEPT !.user = @ - 1]
    /\ UNCHANGED <<backend, slider>>

\* The user picks another embedding.
SelectEmbedding ==
    /\ page.project # Null
    /\ page.selectedAnalysisMethod # Null
    /\ budget.user > 0
    /\ \E i \in DOMAIN page.selectedAnalysisMethod.embeddings :
        LET embedding == page.selectedAnalysisMethod.embeddings[i]
        IN  /\ embedding # page.selectedEmbedding
            /\ page' = SetSelectedEmbedding(Begin(page), embedding)
            /\ lastEvent' = [type |-> "selectEmbedding", embedding |-> embedding,
                             horizontalBefore |-> page.horizontalAxisDimensionIndex,
                             verticalBefore |-> page.verticalAxisDimensionIndex]
    /\ budget' = [budget EXCEPT !.user = @ - 1]
    /\ UNCHANGED <<backend, slider>>

\* The axis selectors are shown when the points have more than two dimensions.
AxisSelectorsShown == page.project # Null /\ Len(EmbeddingDimensions(page)) > 2

\* The user picks another horizontal axis.
SelectHorizontalAxis ==
    /\ AxisSelectorsShown
    /\ budget.axis > 0
    /\ \E i \in DOMAIN EmbeddingDimensions(page) :
        LET index == EmbeddingDimensions(page)[i]
        IN  /\ index # page.horizontalAxisDimensionIndex
            /\ page' = SetHorizontalAxisDimensionIndex(Begin(page), index)
            /\ lastEvent' = [type |-> "selectHorizontalAxis", index |-> index]
    /\ budget' = [budget EXCEPT !.axis = @ - 1]
    /\ UNCHANGED <<backend, slider>>

\* The user picks another vertical axis.
SelectVerticalAxis ==
    /\ AxisSelectorsShown
    /\ budget.axis > 0
    /\ \E i \in DOMAIN EmbeddingDimensions(page) :
        LET index == EmbeddingDimensions(page)[i]
        IN  /\ index # page.verticalAxisDimensionIndex
            /\ page' = SetVerticalAxisDimensionIndex(Begin(page), index)
            /\ lastEvent' = [type |-> "selectVerticalAxis", index |-> index]
    /\ budget' = [budget EXCEPT !.axis = @ - 1]
    /\ UNCHANGED <<backend, slider>>

\* The plot is shown once there is plot data.
PlotShown == page.project # Null /\ page.graphData # Null

\* Whether the selected attributions have been cleared by a deselect event
\* that no selection event has followed (history carried through the plot
\* events and the answers to their requests).
ClearedSinceSelection ==
    IF "cleared" \in DOMAIN lastEvent THEN lastEvent.cleared ELSE FALSE

\* What a selection event of the plot can hold: the first n points of the plot
\* for some n, or nothing at all (as the plot sometimes does when deselecting).
SelectionEvents ==
    LET points == PlotPoints(page.graphData.series, 1)
    IN  {Null} \cup {[points |-> SubSeq(points, 1, n)] : n \in 0..Len(points)}

\* The user selects points of the plot.
Select ==
    /\ PlotShown
    /\ budget.plot > 0
    /\ \E eventInfo \in SelectionEvents :
        /\ page' = OnSelectedAsync(Begin(page), eventInfo)
        /\ lastEvent' = [type |-> "select", eventInfo |-> eventInfo,
                         cleared |-> FALSE]
    /\ budget' = [budget EXCEPT !.plot = @ - 1]
    /\ UNCHANGED <<backend, slider>>

\* The user deselects everything.
Deselect ==
    /\ PlotShown
    /\ budget.plot > 0
    /\ page' = OnDeselect(Begin(page))
    /\ lastEvent' = [type |-> "deselect",
                     hadSelection |-> page.selectedAttributions # Null,
                     cleared |-> TRUE]
    /\ budget' = [budget EXCEPT !.plot = @ - 1]
    /\ UNCHANGED <<backend, slider>>

\* The attribution index of the point that the mouse moved over last (history
\* carried through the hover events), undefined before the first hover.
LastHovered ==
    IF "hovered" \in DOMAIN lastEvent THEN lastEvent.hovered ELSE Undefined

\* What a hover event of the plot holds: one point of the plot.
HoverEvents ==
    LET points == PlotPoints(page.graphData.series, 1)
    IN  {[points |-> <<points[i]>>] : i \in DOMAIN points}

\* The user moves the mouse over a point of the plot.
Hover ==
    /\ PlotShown
    /\ budget.plot > 0
    /\ \E eventInfo \in HoverEvents :
        /\ page' = OnHoverAsync(Begin(page), eventInfo)
        /\ lastEvent' = [type |-> "hover", eventInfo |-> eventInfo,
                         hovered |-> AttributionIndexOf(eventInfo.points[1])]
    /\ budget' = [budget EXCEPT !.plot = @ - 1]
    /\ UNCHANGED <<backend, slider>>

\* The user moves the mouse away from the point it was over.
Unhover ==
    /\ PlotShown
    /\ page.isHovering
    /\ budget.plot > 0
    /\ page' = OnUnhover(Begin(page))
    /\ lastEvent' = [type |-> "unhover",
                     hadPreview |-> page.datasetSampleHoverPreview # Null,
                     hovered |-> LastHovered]
    /\ budget' = [budget EXCEPT !.plot = @ - 1]
    /\ UNCHANGED <<backend, slider>>

\* The Attribution request of a hover is answered.
HoverAttributionLoaded ==
    \E k \in DOMAIN page.hovers :
        /\ page.hovers[k].stage = "attribution"
        /\ page' = HoverAttributionArrived(Begin(page), k)
        /\ lastEvent' = [type |-> "hoverAttributionLoaded", hover |-> k,
                         hovered |-> LastHovered]
        /\ UNCHANGED <<budget, backend, slider>>

\* The dataset Sample request of a hover is answered.
HoverSampleLoaded ==
    \E k \in DOMAIN page.hovers :
        /\ page.hovers[k].stage = "sample"
        /\ page' = HoverSampleArrived(Begin(page), k)
        /\ lastEvent' = [type |-> "hoverSampleLoaded", hover |-> k,
                         hovered |-> LastHovered]
        /\ UNCHANGED <<budget, backend, slider>>

\* An Attribution request of a selection is answered.
AttributionLoaded ==
    \E k \in DOMAIN page.selections :
        /\ page.selections[k].attributionsLoaded
              < Len(page.selections[k].attributionRequests)
        /\ page' = AttributionArrived(Begin(page), k)
        /\ lastEvent' = [type |-> "attributionLoaded", selection |-> k,
                         points |-> page.selections[k].points,
                         cleared |-> ClearedSinceSelection]
        /\ UNCHANGED <<budget, backend, slider>>

\* A dataset Sample request of a selection is answered.
SampleLoaded ==
    \E k \in DOMAIN page.selections :
        /\ page.selections[k].samplesLoaded
              < Len(page.selections[k].sampleRequests)
        /\ page' = SampleArrived(Begin(page), k)
        /\ lastEvent' = [type |-> "sampleLoaded", selection |-> k,
                         points |-> page.selections[k].points,
                         cleared |-> ClearedSinceSelection]
        /\ UNCHANGED <<budget, backend, slider>>

\* An Analysis request fails.
AnalysisFailed ==
    \E i \in DOMAIN page.analysisFetches :
        /\ \A j \in 1..(i - 1) : page.analysisFetches[j] # page.analysisFetches[i]
        /\ page' = RefreshAnalysisFailed(
                      [Begin(page) EXCEPT !.analysisFetches = Without(@, i)])
        /\ lastEvent' = [type |-> "analysisFailed", key |-> page.analysisFetches[i]]
        /\ UNCHANGED <<budget, backend, slider>>

\* An Attribution request of a selection fails.
AttributionFailed ==
    \E k \in DOMAIN page.selections :
        /\ page.selections[k].attributionsLoaded
              < Len(page.selections[k].attributionRequests)
        /\ page' = SelectionFailed(Begin(page), k)
        /\ lastEvent' = [type |-> "attributionFailed", selection |-> k,
                         points |-> page.selections[k].points]
        /\ UNCHANGED <<budget, backend, slider>>

\* A dataset Sample request of a selection fails.
SampleFailed ==
    \E k \in DOMAIN page.selections :
        /\ page.selections[k].samplesLoaded
              < Len(page.selections[k].sampleRequests)
        /\ page' = SelectionFailed(Begin(page), k)
        /\ lastEvent' = [type |-> "sampleFailed", selection |-> k,
                         points |-> page.selections[k].points]
        /\ UNCHANGED <<budget, backend, slider>>

Next ==
    \/ Navigate
    \/ ProjectLoaded
    \/ AnalysisLoaded
    \/ SelectAnalysisMethod
    \/ SelectCategory
    \/ SelectClustering
    \/ SelectEmbedding
    \/ SelectHorizontalAxis
    \/ SelectVerticalAxis

Spec == Init /\ [][Next]_vars

\* The page with its plot events: selections and deselections. It starts with
\* a project on display.
InitPlot ==
    /\ backend = [points |-> SmallPoints, payload |-> Null]
    /\ \E id \in ProjectIds :
          /\ page = LoadedPage(id, SmallPoints)
          /\ lastEvent = [type |-> "analysisLoaded", key |-> CurrentKey(page)]
    /\ budget = [user |-> MaxPlotUserEvents, axis |-> MaxPlotAxisEvents,
                 plot |-> MaxPlotEvents]
    /\ slider = Null

NextPlot ==
    \/ Navigate
    \/ ProjectLoaded
    \/ AnalysisLoaded
    \/ SelectAnalysisMethod
    \/ SelectCategory
    \/ SelectClustering
    \/ SelectEmbedding
    \/ SelectHorizontalAxis
    \/ SelectVerticalAxis
    \/ Select
    \/ Deselect
    \/ AttributionLoaded
    \/ SampleLoaded

SpecPlot == InitPlot /\ [][NextPlot]_vars

\* The page with a project on display and nothing but plot events, so that
\* onSelectedAsync calls overlap each other and deselections.
InitOverlap ==
    /\ backend = [points |-> SmallPoints, payload |-> Null]
    /\ \E id \in ProjectIds :
          /\ page = LoadedPage(id, SmallPoints)
          /\ lastEvent = [type |-> "analysisLoaded", key |-> CurrentKey(page)]
    /\ budget = [user |-> 0, axis |-> 0, plot |-> MaxOverlapEvents]
    /\ slider = Null

NextOverlap ==
    \/ Select
    \/ Deselect
    \/ AttributionLoaded
    \/ SampleLoaded

SpecOverlap == InitOverlap /\ [][NextOverlap]_vars

\* How many times the user changes a selector while answers are outstanding.
MaxStaleEvents == 3

\* The page with a project on display, the user changing category, clustering
\* and embedding faster than the backend answers.
InitStale ==
    /\ backend = [points |-> SmallPoints, payload |-> Null]
    /\ \E id \in ProjectIds :
          /\ page = LoadedPage(id, SmallPoints)
          /\ lastEvent = [type |-> "analysisLoaded", key |-> CurrentKey(page)]
    /\ budget = [user |-> MaxStaleEvents, axis |-> 0, plot |-> 0]
    /\ slider = Null

NextStale ==
    \/ SelectCategory
    \/ SelectClustering
    \/ SelectEmbedding
    \/ AnalysisLoaded

SpecStale == InitStale /\ [][NextStale]_vars

\* How many times the user changes a selector, and how many times the user
\* selects points, while the backend may fail.
MaxFailUserEvents == 1
MaxFailPlotEvents == 1

\* The page with a project on display and a backend whose answers may fail.
InitFail ==
    /\ backend = [points |-> SmallPoints, payload |-> Null]
    /\ \E id \in ProjectIds :
          /\ page = LoadedPage(id, SmallPoints)
          /\ lastEvent = [type |-> "analysisLoaded", key |-> CurrentKey(page)]
    /\ budget = [user |-> MaxFailUserEvents, axis |-> 0, plot |-> MaxFailPlotEvents]
    /\ slider = Null

NextFail ==
    \/ SelectCategory
    \/ SelectClustering
    \/ SelectEmbedding
    \/ AnalysisLoaded
    \/ AnalysisFailed
    \/ Select
    \/ AttributionLoaded
    \/ AttributionFailed
    \/ SampleLoaded
    \/ SampleFailed

SpecFail == InitFail /\ [][NextFail]_vars

\* How many calls the gateways get.
MaxGatewayCalls == 2

\* The keys the gateways are called with.
GatewayAnalysisKeys ==
    {AnalysisKey(id, "lrp", category, "kmeans-5", embedding) :
        id \in ProjectIds, category \in {"cat-1", "cat-2"}, embedding \in {"tsne"}}
GatewayIndexKeys == {IndexKey(id, index) : id \in ProjectIds, index \in GraphIndices}

\* A caller of the gateways may call while fewer than the bound were made.
MayCall == Len(backend.requests) < MaxGatewayCalls

\* A caller asks for the list of projects.
GetProjects ==
    /\ MayCall
    /\ backend' = [backend EXCEPT !.requests = ProjectsServiceGetAsync(@)]
    /\ lastEvent' = [type |-> "call", operation |-> "projects", key |-> Null]
    /\ UNCHANGED <<page, budget, slider>>

\* A caller asks for a project.
GetProjectById ==
    /\ MayCall
    /\ \E id \in ProjectIds :
        /\ backend' = [backend EXCEPT !.requests = ProjectsServiceGetByIdAsync(@, id)]
        /\ lastEvent' = [type |-> "call", operation |-> "project", key |-> [id |-> id]]
    /\ UNCHANGED <<page, budget, slider>>

\* A caller asks for an Analysis.
GetAnalysis ==
    /\ MayCall
    /\ \E key \in GatewayAnalysisKeys :
        /\ backend' = [backend EXCEPT !.requests =
                AnalysesServiceGetAsync(@, key.projectId, key.analysisMethod,
                                        key.category, key.clustering, key.embedding)]
        /\ lastEvent' = [type |-> "call", operation |-> "analysis", key |-> key]
    /\ UNCHANGED <<page, budget, slider>>

\* A caller asks for an Attribution.
GetAttribution ==
    /\ MayCall
    /\ \E key \in GatewayIndexKeys :
        /\ backend' = [backend EXCEPT !.requests =
                AttributionsServiceGetAsync(@, key.projectId, key.index)]
        /\ lastEvent' = [type |-> "call", operation |-> "attribution", key |-> key]
    /\ UNCHANGED <<page, budget, slider>>

\* A caller asks for a dataset Sample.
GetDatasetSample ==
    /\ MayCall
    /\ \E key \in GatewayIndexKeys :
        /\ backend' = [backend EXCEPT !.requests =
                DatasetServiceGetAsync(@, key.projectId, key.index)]
        /\ lastEvent' = [type |-> "call", operation |-> "sample", key |-> key]
    /\ UNCHANGED <<page, budget, slider>>

\* A caller asks for the color maps.
GetColorMaps ==
    /\ MayCall
    /\ backend' = [backend EXCEPT !.requests = ColorMapsServiceGetAsync(@)]
    /\ lastEvent' = [type |-> "call", operation |-> "colorMaps", key |-> Null]
    /\ UNCHANGED <<page, budget, slider>>

\* The backend answers a request: the promise of the call resolves.
RequestAnswered ==
    \E i \in DOMAIN backend.requests :
        /\ backend.requests[i].state = "pending"
        /\ backend' = [backend EXCEPT !.requests[i].state = "answered"]
        /\ lastEvent' = [type |-> "answered", request |-> i]
        /\ UNCHANGED <<page, budget, slider>>

\* A request fails: the promise of the call is rejected.
RequestFailed ==
    \E i \in DOMAIN backend.requests :
        /\ backend.requests[i].state = "pending"
        /\ backend' = [backend EXCEPT !.requests[i].state = "failed"]
        /\ lastEvent' = [type |-> "failed", request |-> i]
        /\ UNCHANGED <<page, budget, slider>>

\* The gateways before any call.
InitGateway ==
    /\ backend = [points |-> 0, payload |-> Null, requests |-> <<>>]
    /\ page = NewPage
    /\ lastEvent = [type |-> "none"]
    /\ budget = [user |-> 0, axis |-> 0, plot |-> 0]
    /\ slider = Null

NextGateway ==
    \/ GetProjects
    \/ GetProjectById
    \/ GetAnalysis
    \/ GetAttribution
    \/ GetDatasetSample
    \/ GetColorMaps
    \/ RequestAnswered
    \/ RequestFailed

SpecGateway == InitGateway /\ [][NextGateway]_vars

\* How many times a payload is mapped to an entity.
MaxMappings == 2

\* The relative URLs and the color map names of the payloads.
RelativeUrls == {"/a.png", "/b.png"}
ColorMapNames == {"gray", "jet"}

\* The payloads of the backend: an Attribution with a heatmap URL per color
\* map, a dataset Sample and a ColorMap.
AttributionPayloads ==
    {[index |-> 5, url |-> url, urls |-> urls] :
        url \in RelativeUrls,
        urls \in UNION {[names -> RelativeUrls] : names \in SUBSET ColorMapNames}}
SamplePayloads == {[index |-> 5, url |-> url] : url \in RelativeUrls}
ColorMapPayloads == {[name |-> "gray", url |-> url] : url \in RelativeUrls}

\* Another payload may be mapped while fewer than the bound were.
MayMap == Len(backend.entities) < MaxMappings

\* The Attribution payload is mapped to an entity.
MapAttribution ==
    /\ MayMap
    /\ LET made == Attribution(backend.heap, "attribution", apiBaseUrl)
       IN  backend' = [backend EXCEPT !.heap = made.heap,
                                      !.entities = Append(@, made.entity)]
    /\ lastEvent' = [type |-> "mapped", kind |-> "attribution"]
    /\ UNCHANGED <<page, budget, slider>>

\* The Sample payload is mapped to an entity.
MapSample ==
    /\ MayMap
    /\ backend' = [backend EXCEPT !.entities =
                      Append(@, Sample(backend.heap["sample"], apiBaseUrl))]
    /\ lastEvent' = [type |-> "mapped", kind |-> "sample"]
    /\ UNCHANGED <<page, budget, slider>>

\* The ColorMap payload is mapped to an entity.
MapColorMap ==
    /\ MayMap
    /\ backend' = [backend EXCEPT !.entities =
                      Append(@, ColorMap(backend.heap["colorMap"], apiBaseUrl))]
    /\ lastEvent' = [type |-> "mapped", kind |-> "colorMap"]
    /\ UNCHANGED <<page, budget, slider>>

\* The payloads as received and no entity made of them yet; `received` keeps
\* them as the backend sent them.
InitEntity ==
    /\ \E attribution \in AttributionPayloads, sample \in SamplePayloads,
          colorMap \in ColorMapPayloads :
          LET heap == [attribution |-> attribution, sample |-> sample,
                       colorMap |-> colorMap]
          IN  backend = [points |-> 0, payload |-> Null, heap |-> heap,
                         received |-> heap, entities |-> <<>>]
    /\ page = NewPage
    /\ lastEvent = [type |-> "none"]
    /\ budget = [user |-> 0, axis |-> 0, plot |-> 0]
    /\ slider = Null

NextEntity ==
    \/ MapAttribution
    \/ MapSample
    \/ MapColorMap

SpecEntity == InitEntity /\ [][NextEntity]_vars

\* How many pointer events a slider gets.
MaxSliderEvents == 4

\* The widths of images and handles, the height of the handle, and the
\* horizontal positions of the pointer, in pixels.
ImageWidths == {150, 300, 301}
SliderHandleWidths == {200, 201}
SliderHandleHeight == 120
ClientXs == {90, 100, 140}

\* The slider takes another pointer event.
SliderListens == slider # Null /\ slider.initialized /\ budget.plot > 0

\* The view of the slider is initialized.
SliderViewInit ==
    /\ slider # Null /\ ~slider.initialized
    /\ slider' = NgAfterViewInit(slider)
    /\ lastEvent' = [type |-> "ngAfterViewInit"]
    /\ UNCHANGED <<page, budget, backend>>

\* The pointer is pressed on the handle.
MouseDown ==
    /\ SliderListens
    /\ \E clientX \in ClientXs :
        /\ slider' = OnMouseDown(slider, clientX)
        /\ lastEvent' = [type |-> "mousedown", clientX |-> clientX]
    /\ budget' = [budget EXCEPT !.plot = @ - 1]
    /\ UNCHANGED <<page, backend>>

\* The button is released somewhere in the document.
MouseUp ==
    /\ SliderListens
    /\ slider' = OnMouseUp(slider)
    /\ lastEvent' = [type |-> "mouseup"]
    /\ budget' = [budget EXCEPT !.plot = @ - 1]
    /\ UNCHANGED <<page, backend>>

\* The document gets a mouseleave event.
MouseLeave ==
    /\ SliderListens
    /\ slider' = OnMouseLeave(slider)
    /\ lastEvent' = [type |-> "mouseleave"]
    /\ budget' = [budget EXCEPT !.plot = @ - 1]
    /\ UNCHANGED <<page, backend>>

\* The pointer moves over the handle.
MouseMove ==
    /\ SliderListens
    /\ \E clientX \in ClientXs :
        /\ slider' = OnMouseMove(slider, clientX)
        /\ lastEvent' = [type |-> "mousemove", clientX |-> clientX]
    /\ budget' = [budget EXCEPT !.plot = @ - 1]
    /\ UNCHANGED <<page, backend>>

\* A slider whose view is about to be initialized.
InitSlider ==
    /\ \E imageWidth \in ImageWidths, sliderHandleWidth \in SliderHandleWidths :
          slider = NewSlider(imageWidth, sliderHandleWidth, SliderHandleHeight)
    /\ page = NewPage
    /\ lastEvent = [type |-> "constructed"]
    /\ budget = [user |-> 0, axis |-> 0, plot |-> MaxSliderEvents]
    /\ backend = [points |-> 0, payload |-> Null]

NextSlider ==
    \/ SliderViewInit
    \/ MouseDown
    \/ MouseUp
    \/ MouseLeave
    \/ MouseMove

SpecSlider == InitSlider /\ [][NextSlider]_vars

\* How many times the setters of the page are called by other code.
MaxSetterCalls == 3

\* The Analysis objects assigned to the page: none, or one of two payloads.
AssignedAnalyses ==
    {Null} \cup {AnalysisFor(AnalysisKey(1, "lrp", "cat-1", "kmeans-5", embedding),
                             SmallPoints) : embedding \in {"tsne", "pca"}}

\* The analysis property is assigned.
AssignAnalysis ==
    /\ budget.user > 0
    /\ \E value \in AssignedAnalyses :
        /\ page' = SetAnalysis(Begin(page), value)
        /\ lastEvent' = [type |-> "setAnalysis", absent |-> value = Null]
    /\ budget' = [budget EXCEPT !.user = @ - 1]
    /\ UNCHANGED <<backend, slider>>

\* The horizontalAxisDimensionIndex property is assigned.
AssignHorizontalAxis ==
    /\ budget.user > 0
    /\ \E index \in {0, 1} :
        /\ page' = SetHorizontalAxisDimensionIndex(Begin(page), index)
        /\ lastEvent' = [type |-> "setHorizontalAxis", index |-> index]
    /\ budget' = [budget EXCEPT !.user = @ - 1]
    /\ UNCHANGED <<backend, slider>>

\* The verticalAxisDimensionIndex property is assigned.
AssignVerticalAxis ==
    /\ budget.user > 0
    /\ \E index \in {0, 1} :
        /\ page' = SetVerticalAxisDimensionIndex(Begin(page), index)
        /\ lastEvent' = [type |-> "setVerticalAxis", index |-> index]
    /\ budget' = [budget EXCEPT !.user = @ - 1]
    /\ UNCHANGED <<backend, slider>>

\* The selectedAnalysisMethod property is assigned no method.
ClearAnalysisMethod ==
    /\ budget.user > 0
    /\ page' = SetSelectedAnalysisMethod(Begin(page), Null)
    /\ lastEvent' = [type |-> "setAnalysisMethod",
                     hadMethod |-> page.selectedAnalysisMethod # Null]
    /\ budget' = [budget EXCEPT !.user = @ - 1]
    /\ UNCHANGED <<backend, slider>>

\* The page with a project on display, its properties assigned by other code
\* than its selectors.
InitSetters ==
    /\ backend = [points |-> SmallPoints, payload |-> Null]
    /\ \E id \in ProjectIds :
          /\ page = LoadedPage(id, SmallPoints)
          /\ lastEvent = [type |-> "analysisLoaded", key |-> CurrentKey(page)]
    /\ budget = [user |-> MaxSetterCalls, axis |-> 0, plot |-> 0]
    /\ slider = Null

NextSetters ==
    \/ AssignAnalysis
    \/ AssignHorizontalAxis
    \/ AssignVerticalAxis
    \/ ClearAnalysisMethod

SpecSetters == InitSetters /\ [][NextSetters]_vars

\* The page with a project on display whose Analysis is an arbitrary payload,
\* no request in flight.
LoadedPageShowing(id, analysis) ==
    LET opened == OpenedPage(id)
        project == RefreshProjectLoaded(opened, Projects[id])
    IN  [RefreshAnalysisLoaded(project, analysis)
            EXCEPT !.analysisFetches = <<>>, !.calls = <<>>]

\* The page showing an arbitrary payload, in which points may share an
\* attribution index; the user selects points once.
InitShared ==
    /\ backend \in {[points |-> 0, payload |-> payload] : payload \in Payloads}
    /\ \E id \in ProjectIds :
          /\ page = LoadedPageShowing(id, backend.payload)
          /\ lastEvent = [type |-> "analysisLoaded", key |-> CurrentKey(page)]
    /\ budget = [user |-> 0, axis |-> 0, plot |-> 1]
    /\ slider = Null

NextShared ==
    \/ Select
    \/ AttributionLoaded
    \/ SampleLoaded

SpecShared == InitShared /\ [][NextShared]_vars

\* How many times the user changes the route or a selector while the backend
\* answers in the order of the requests.
MaxOrderedEvents == 2

\* The earliest project request in flight is answered.
ProjectLoadedInOrder ==
    /\ page.projectFetches # <<>>
    /\ LET project == Projects[Head(page.projectFetches)]
       IN  /\ page' = RefreshProjectLoaded(
                         [Begin(page) EXCEPT !.projectFetches = Tail(@)],
                         project)
           /\ lastEvent' = [type |-> "projectLoaded", project |-> project,
                            hadSelection |-> page.selectedAttributions # Null]
    /\ UNCHANGED <<budget, backend, slider>>

\* The earliest Analysis request in flight is answered.
AnalysisLoadedInOrder ==
    /\ page.analysisFetches # <<>>
    /\ LET key == Head(page.analysisFetches)
       IN  /\ page' = RefreshAnalysisLoaded(
                         [Begin(page) EXCEPT !.analysisFetches = Tail(@)],
                         Answer(key))
           /\ lastEvent' = [type |-> "analysisLoaded", key |-> key]
    /\ UNCHANGED <<budget, backend, slider>>

\* The page with a project on display and a backend that answers the requests
\* of a kind in the order they were issued and never fails. Project requests
\* and Analysis requests are not ordered against each other, which allows
\* every run of a backend that answers all requests in order, and more.
InitOrdered ==
    /\ backend = [points |-> SmallPoints, payload |-> Null]
    /\ \E id \in ProjectIds :
          /\ page = LoadedPage(id, SmallPoints)
          /\ lastEvent = [type |-> "analysisLoaded", key |-> CurrentKey(page)]
    /\ budget = [user |-> MaxOrderedEvents, axis |-> 0, plot |-> 0]
    /\ slider = Null

NextOrdered ==
    \/ Navigate
    \/ ProjectLoadedInOrder
    \/ AnalysisLoadedInOrder
    \/ SelectAnalysisMethod
    \/ SelectCategory
    \/ SelectClustering
    \/ SelectEmbedding

SpecOrdered == InitOrdered /\ [][NextOrdered]_vars

\* How many times the user picks another color map.
MaxColorMapEvents == 1

\* The lists of color maps a backend may serve: with and without the color
\* map named "black-fire-red", which is first or not.
ColorMapLists ==
    {<<ColorMapNamed("gray-red")>>,
     <<ColorMapNamed("gray-red"), ColorMapNamed("black-green")>>,
     <<ColorMapNamed("gray-red"), ColorMapNamed("black-fire-red")>>,
     <<ColorMapNamed("black-fire-red"), ColorMapNamed("gray-red")>>}

\* The color map request of ngOnInit is answered.
ColorMapsLoaded ==
    /\ page.colorMapFetches > 0
    /\ page' = NgOnInitLoaded(Begin(page), ColorMapEntities(ServedColorMaps))
    /\ lastEvent' = [type |-> "colorMapsLoaded"]
    /\ UNCHANGED <<budget, backend, slider>>

\* The user picks another color map of the list (the selector is shown once
\* the list has arrived).
SelectColorMap ==
    /\ page.project # Null
    /\ page.colorMaps # Null
    /\ budget.user > 0
    /\ \E i \in DOMAIN page.colorMaps.items :
          /\ page.colorMaps.items[i] # page.selectedColorMap
          /\ page' = [Begin(page) EXCEPT
                         !.selectedColorMap = page.colorMaps.items[i]]
          /\ lastEvent' = [type |-> "selectColorMap"]
    /\ budget' = [budget EXCEPT !.user = @ - 1]
    /\ UNCHANGED <<backend, slider>>

\* A page under construction whose backend serves one of the lists of color
\* maps; the color maps, the project, its Analysis and the requests of one
\* selection are answered in any order.
InitColorMap ==
    /\ page = NewPage
    /\ lastEvent = [type |-> "constructed"]
    /\ budget = [user |-> MaxColorMapEvents, axis |-> 0, plot |-> 1]
    /\ slider = Null
    /\ backend \in {[points |-> SmallPoints, payload |-> Null,
                     colorMaps |-> colorMaps] : colorMaps \in ColorMapLists}

NextColorMap ==
    \/ NgOnInit
    \/ ColorMapsLoaded
    \/ ProjectLoaded
    \/ AnalysisLoaded
    \/ Select
    \/ AttributionLoaded
    \/ SampleLoaded
    \/ SelectColorMap

SpecColorMap == InitColorMap /\ [][NextColorMap]_vars

\* The page with a project on display and the mouse moving over its plot.
InitHover ==
    /\ backend = [points |-> SmallPoints, payload |-> Null]
    /\ \E id \in ProjectIds :
          /\ page = LoadedPage(id, SmallPoints)
          /\ lastEvent = [type |-> "analysisLoaded", key |-> CurrentKey(page)]
    /\ budget = [user |-> 0, axis |-> 0, plot |-> MaxHoverEvents]
    /\ slider = Null

NextHover ==
    \/ Hover
    \/ Unhover
    \/ HoverAttributionLoaded
    \/ HoverSampleLoaded

SpecHover == InitHover /\ [][NextHover]_vars

\* The page of a project whose Analysis requests are all answered with one
\* arbitrary payload. It starts when the project has arrived.
InitGraph ==
    /\ backend \in {[points |-> 0, payload |-> payload] : payload \in Payloads}
    /\ \E id \in ProjectIds :
          /\ page = RefreshProjectLoaded(OpenedPage(id), Projects[id])
          /\ lastEvent = [type |-> "projectLoaded", project |-> Projects[id],
                          hadSelection |-> FALSE]
    /\ budget = [user |-> 0, axis |-> MaxGraphAxisEvents, plot |-> 0]
    /\ slider = Null

NextGraph ==
    \/ AnalysisLoaded
    \/ SelectHorizontalAxis
    \/ SelectVerticalAxis

SpecGraph == InitGraph /\ [][NextGraph]_vars

\* The page from its construction, with one selection, processed alone, of a
\* plot with more points than the cap.
NextCap ==
    \/ NgOnInit
    \/ ProjectLoaded
    \/ AnalysisLoaded
    \/ Select
    \/ AttributionLoaded
    \/ SampleLoaded

SpecCap == InitCap /\ [][NextCap]_vars

(***************************************************************************)
(* Properties of the selection controller.                                 *)
(***************************************************************************)
\* "tsne" occurs at some position of the method's embeddings.
TsneListed(method) ==
    \E i \in DOMAIN method.embeddings : method.embeddings[i] = "tsne"

DefaultKey(projectId, method) ==
    AnalysisKey(projectId, method.name, method.categories[1].name,
                method.clusterings[1],
                IF TsneListed(method) THEN "tsne" ELSE method.embeddings[1])

\* C2: when a project arrives, selectedAttributions is cleared, the project's
\* first method becomes selectedAnalysisMethod, and an Analysis request is
\* issued for the project's id, that method's name, its first category, its
\* first clustering and its default embedding ("tsne" when listed).
ProjectArrivalRequestsDefaultAnalysis ==
    [][lastEvent'.type = "projectLoaded" =>
        LET project == lastEvent'.project
            method == project.analysisMethods[1]
            before == Len(page.analysisFetches)
            after == Len(page'.analysisFetches)
        IN  /\ page'.selectedAttributions = Null
            /\ page'.project = project
            /\ page'.selectedAnalysisMethod = method
            /\ after > before
            /\ SubSeq(page'.analysisFetches, 1, before) = page.analysisFetches
            /\ page'.analysisFetches[after] = DefaultKey(project.id, method)
    ]_vars

\* A project arrived while attributions were selected; its first method lists
\* "tsne" after another embedding, and the request issued last asks for "tsne".
ProjectArrivedOverSelection ==
    /\ lastEvent.type = "projectLoaded"
    /\ lastEvent.hadSelection
    /\ page.selectedAttributions = Null
    /\ lastEvent.project.analysisMethods[1].embeddings[1] # "tsne"
    /\ Len(page.analysisFetches) > 0
    /\ page.analysisFetches[Len(page.analysisFetches)].embedding = "tsne"

\* The axis indices of a page are the initial ones.
AxesReset(s) ==
    s.horizontalAxisDimensionIndex = 0 /\ s.verticalAxisDimensionIndex = 1

\* C3: setting selectedEmbedding leaves the axis indices at (0, 1), and they
\* are (0, 1) already when the setter issues its Analysis request; from then
\* on only a user's change of an axis selector moves them away from (0, 1).
EmbeddingSetterResetsAxes ==
    [][/\ lastEvent'.type = "selectEmbedding" =>
            /\ AxesReset(page')
            /\ Len(page'.calls) = 1
            /\ AxesReset(page'.calls[1])
            /\ page'.calls[1].selectedEmbedding = lastEvent'.embedding
            /\ Len(page'.analysisFetches) = Len(page.analysisFetches) + 1
       /\ (AxesReset(page) /\ ~AxesReset(page')) =>
            lastEvent'.type \in {"selectHorizontalAxis", "selectVerticalAxis"}
    ]_vars

\* The user changed the embedding while the axes were not (0, 1); the axes are
\* (0, 1) and the request of the setter is in flight.
EmbeddingChangedOverMovedAxes ==
    /\ lastEvent.type = "selectEmbedding"
    /\ <<lastEvent.horizontalBefore, lastEvent.verticalBefore>> # <<0, 1>>
    /\ AxesReset(page)
    /\ Len(page.analysisFetches) > 0
    /\ page.analysisFetches[Len(page.analysisFetches)].embedding
          = lastEvent.embedding

\* The page but for its axis indices and its plot data.
BesidesAxesAndPlot(s) ==
    [Fields(s) EXCEPT !.horizontalAxisDimensionIndex = 0,
                      !.verticalAxisDimensionIndex = 1,
                      !.graphData = Null]

\* C4: setting an axis index issues no Analysis request and leaves analysis,
\* the loading flag, the four selectors and selectedAttributions (indeed all
\* of the page but the axis index set) unchanged; plotData is recomputed from
\* the analysis already loaded.
AxisSetterOnlyRedrawsPlot ==
    [][lastEvent'.type \in {"selectHorizontalAxis", "selectVerticalAxis"} =>
        /\ page'.calls = <<>>
        /\ page'.analysisFetches = page.analysisFetches
        /\ page'.analysis = page.analysis
        /\ page'.isLoading = page.isLoading
        /\ page'.selectedAnalysisMethod = page.selectedAnalysisMethod
        /\ page'.selectedCategory = page.selectedCategory
        /\ page'.selectedClustering = page.selectedClustering
        /\ page'.selectedEmbedding = page.selectedEmbedding
        /\ page'.selectedAttributions = page.selectedAttributions
        /\ BesidesAxesAndPlot(page') = BesidesAxesAndPlot(page)
        /\ IF lastEvent'.type = "selectHorizontalAxis"
           THEN /\ page'.horizontalAxisDimensionIndex = lastEvent'.index
                /\ page'.verticalAxisDimensionIndex = page.verticalAxisDimensionIndex
           ELSE /\ page'.verticalAxisDimensionIndex = lastEvent'.index
                /\ page'.horizontalAxisDimensionIndex = page.horizontalAxisDimensionIndex
        /\ page'.graphData = GraphData(page.analysis,
                                       page'.horizontalAxisDimensionIndex,
                                       page'.verticalAxisDimensionIndex)
    ]_vars

\* The user moved the horizontal axis to the third dimension while
\* attributions were selected; they still are, and the plot shows the third
\* coordinate of the first point.
AxisChangedOverSelection ==
    /\ lastEvent.type = "selectHorizontalAxis"
    /\ page.selectedAttributions # Null
    /\ Len(page.selectedAttributions.items) > 0
    /\ page.horizontalAxisDimensionIndex = 2
    /\ page.graphData.series[1].x[1] = page.analysis.embedding[1].value[3]

\* One of the four selectors of a page is unset.
SomeSelectorUnset(s) ==
    \/ s.selectedAnalysisMethod = Null
    \/ s.selectedCategory = Null
    \/ s.selectedClustering = None
    \/ s.selectedEmbedding = None

\* The calls of refreshAnalysisAsync, among those of a handler, that were made
\* with every selector set.
CompleteCalls(calls) == {i \in DOMAIN calls : ~SomeSelectorUnset(calls[i])}

\* C5: a call of refreshAnalysisAsync made while one of the four selectors is
\* unset does nothing: no request is issued, and the loading flag,
\* selectedAttributions, analysis and plotData stay as they are. A handler
\* therefore issues as many requests as it makes calls with all selectors set.
RefreshWithUnsetSelectorDoesNothing ==
    [][/\ \A i \in DOMAIN page'.calls :
            LET before == page'.calls[i]
                after == RefreshAnalysisStart(before)
            IN  SomeSelectorUnset(before) =>
                    /\ after.analysisFetches = before.analysisFetches
                    /\ after.isLoading = before.isLoading
                    /\ after.selectedAttributions = before.selectedAttributions
                    /\ after.analysis = before.analysis
                    /\ after.graphData = before.graphData
                    /\ after = before
       /\ lastEvent'.type # "analysisLoaded" =>
            Len(page'.analysisFetches)
                = Len(page.analysisFetches) + Cardinality(CompleteCalls(page'.calls))
    ]_vars

\* A handler called refreshAnalysisAsync with a selector unset and the loading
\* flag set, and the flag is still set after the handler.
RefreshCalledWithUnsetSelector ==
    /\ \E i \in DOMAIN page.calls :
          /\ SomeSelectorUnset(page.calls[i])
          /\ page.calls[i].isLoading
          /\ page.calls[i].selectedAnalysisMethod # Null
    /\ page.isLoading

\* The key of the Analysis a page shows selectors for.
KeyOf(s) ==
    [projectId |-> s.project.id,
     analysisMethod |-> s.selectedAnalysisMethod.name,
     category |-> s.selectedCategory.name,
     clustering |-> s.selectedClustering,
     embedding |-> s.selectedEmbedding]

\* The keys of the calls of a handler that were made with every selector set.
RECURSIVE KeysOf(_)
KeysOf(calls) ==
    IF calls = <<>> THEN <<>>
    ELSE (IF SomeSelectorUnset(Head(calls)) THEN <<>> ELSE <<KeyOf(Head(calls))>>)
         \o KeysOf(Tail(calls))

\* C6: a call of refreshAnalysisAsync made with all four selectors set sets
\* the loading flag, clears selectedAttributions and issues one request keyed
\* by the project id, method name, category name, clustering and embedding of
\* that moment, and nothing else; when a request is answered, the answer
\* becomes analysis, plotData is recomputed from it, and the loading flag is
\* cleared.
RefreshIssuesOneRequestAndAssignsAnswer ==
    [][/\ \A i \in DOMAIN page'.calls :
            LET before == page'.calls[i]
                after == RefreshAnalysisStart(before)
            IN  ~SomeSelectorUnset(before) =>
                    after = [before EXCEPT
                                !.isLoading = TRUE,
                                !.selectedAttributions = Null,
                                !.analysisFetches = Append(@, KeyOf(before))]
       /\ lastEvent'.type # "analysisLoaded" =>
            page'.analysisFetches = page.analysisFetches \o KeysOf(page'.calls)
       /\ (lastEvent'.type # "analysisLoaded" /\ KeysOf(page'.calls) # <<>>) =>
            /\ page'.isLoading
            /\ page'.selectedAttributions = Null
       /\ lastEvent'.type \in {"selectCategory", "selectClustering", "selectEmbedding"} =>
            KeysOf(page'.calls) = <<KeyOf(page')>>
       /\ lastEvent'.type = "analysisLoaded" =>
            /\ \E i \in DOMAIN page.analysisFetches :
                  /\ page.analysisFetches[i] = lastEvent'.key
                  /\ page'.analysisFetches = Without(page.analysisFetches, i)
            /\ page'.analysis = AnalysisFor(lastEvent'.key, backend.points)
            /\ page'.graphData = GraphData(page'.analysis,
                                           page.horizontalAxisDimensionIndex,
                                           page.verticalAxisDimensionIndex)
            /\ ~page'.isLoading
            /\ page'.calls = <<>>
    ]_vars

\* The user changed the category while attributions were selected: the
\* selection is cleared, the loading flag is set and the request for the new
\* category is in flight.
CategoryChangedOverSelection ==
    /\ lastEvent.type = "selectCategory"
    /\ lastEvent.hadSelection
    /\ page.selectedAttributions = Null
    /\ page.isLoading
    /\ page.analysisFetches # <<>>
    /\ page.analysisFetches[Len(page.analysisFetches)].category
          = lastEvent.category.name

(***************************************************************************)
(* Properties of the derived plot data.                                    *)
(***************************************************************************)
\* How often a value occurs in a sequence.
Occurrences(seq, value) == Cardinality({i \in DOMAIN seq : seq[i] = value})

\* The attribution indices of all series, one series after the other.
RECURSIVE SeriesIndices(_)
SeriesIndices(series) ==
    IF series = <<>> THEN <<>>
    ELSE Head(series).attributionIndices \o SeriesIndices(Tail(series))

\* The positions, in order, of the points of an embedding list in a cluster.
RECURSIVE PositionsIn(_, _, _)
PositionsIn(points, cluster, from) ==
    IF from > Len(points) THEN <<>>
    ELSE (IF points[from].cluster = cluster THEN <<from>> ELSE <<>>)
         \o PositionsIn(points, cluster, from + 1)

\* C7: plotData partitions the points of the analysis by cluster: the series
\* are those of the distinct clusters, the series of cluster k holds exactly
\* the points of cluster k (each once, in list order, with its coordinates on
\* the two axes and its attribution index), so no point is dropped or
\* duplicated, and the attribution indices of all series together are a
\* permutation of those of the embedding list.
PlotDataPartitionsPoints ==
    page.analysis # Null =>
        LET points == page.analysis.embedding
            series == page.graphData.series
            indices == [i \in DOMAIN points |-> points[i].attributionIndex]
        IN  /\ \A j, k \in DOMAIN series :
                  series[j].name = series[k].name => j = k
            /\ {series[j].name : j \in DOMAIN series}
                  = {points[i].cluster : i \in DOMAIN points}
            /\ \A j \in DOMAIN series :
                  LET positions == PositionsIn(points, series[j].name, 1)
                  IN  /\ Len(series[j].attributionIndices) = Len(positions)
                      /\ Len(series[j].x) = Len(positions)
                      /\ Len(series[j].y) = Len(positions)
                      /\ \A i \in DOMAIN positions :
                            /\ series[j].attributionIndices[i]
                                  = points[positions[i]].attributionIndex
                            /\ series[j].x[i] \in
                                  {points[positions[i]].value[d] :
                                      d \in DOMAIN points[positions[i]].value}
            /\ Len(SeriesIndices(series)) = Len(points)
            /\ \A index \in GraphIndices :
                  Occurrences(SeriesIndices(series), index)
                      = Occurrences(indices, index)

\* An analysis of three points whose clusters alternate is plotted as two
\* series, the first with the first and the third point.
InterleavedClustersPlotted ==
    /\ page.analysis # Null
    /\ Len(page.analysis.embedding) = 3
    /\ page.analysis.embedding[1].cluster = page.analysis.embedding[3].cluster
    /\ page.analysis.embedding[1].cluster # page.analysis.embedding[2].cluster
    /\ page.analysis.embedding[1].attributionIndex
          # page.analysis.embedding[3].attributionIndex
    /\ Len(page.graphData.series) = 2
    /\ Len(page.graphData.series[1].attributionIndices) = 2

\* C8: embeddingDimensions is the list 0, 1, ..., N-1, with N the number of
\* coordinates of the first point of the analysis, and the empty list when
\* there is no analysis or the analysis has no points.
EmbeddingDimensionsCountCoordinates ==
    LET dimensions == EmbeddingDimensions(page)
    IN  IF page.analysis = Null THEN dimensions = <<>>
        ELSE IF page.analysis.embedding = <<>> THEN dimensions = <<>>
        ELSE /\ Len(dimensions) = Len(page.analysis.embedding[1].value)
             /\ \A i \in DOMAIN dimensions : dimensions[i] = i - 1

\* An analysis with points of three coordinates is loaded, and
\* embeddingDimensions is 0, 1, 2.
ThreeDimensionsListed ==
    /\ page.analysis # Null
    /\ Len(page.analysis.embedding) > 0
    /\ Len(page.analysis.embedding[1].value) = 3
    /\ EmbeddingDimensions(page) = <<0, 1, 2>>

(***************************************************************************)
(* Properties of the selection handling.                                   *)
(***************************************************************************)
\* The smaller of two numbers.
Min(a, b) == IF a < b THEN a ELSE b

\* selectedAttributions holds the attributions of the first 20 (or fewer) of
\* the points, in their order, each with the sample of its index.
HoldsFirstPoints(points) ==
    /\ page.selectedAttributions # Null
    /\ Len(page.selectedAttributions.items) = Min(Len(points), 20)
    /\ \A i \in DOMAIN page.selectedAttributions.items :
          /\ page.selectedAttributions.items[i].index = points[i]
          /\ page.selectedAttributions.items[i].projectId = page.project.id
          /\ page.selectedAttributions.items[i].sample # Null
          /\ page.selectedAttributions.items[i].sample.index = points[i]

\* C9: an onSelected call that runs alone and is answered in full leaves
\* selectedAttributions with min(n, 20) entries, the attributions of the first
\* min(n, 20) points of its event in event order; it issues at most 20
\* Attribution and at most 20 Sample requests, the i-th of each for the i-th
\* point, so no point after the 20th is ever asked for.
SelectionLoadsFirstTwentyPoints ==
    /\ \A k \in DOMAIN page.selections :
          LET selection == page.selections[k]
          IN  /\ Len(selection.attributionRequests) = Min(Len(selection.points), 20)
              /\ Len(selection.sampleRequests) <= 20
              /\ Len(selection.sampleRequests) <= Len(selection.attributionRequests)
              /\ \A i \in DOMAIN selection.attributionRequests :
                    selection.attributionRequests[i].index = selection.points[i]
              /\ \A i \in DOMAIN selection.sampleRequests :
                    selection.sampleRequests[i].index = selection.points[i]
    /\ (lastEvent.type \in {"attributionLoaded", "sampleLoaded"}
            /\ page.selections = <<>>) =>
          HoldsFirstPoints(lastEvent.points)
    /\ (lastEvent.type = "select" /\ lastEvent.eventInfo # Null
            /\ page.selections = <<>>) =>
          /\ lastEvent.eventInfo.points = <<>>
          /\ HoldsFirstPoints(<<>>)

\* A selection of more than 20 points has been answered in full, and
\* selectedAttributions holds 20 attributions.
LargeSelectionCompleted ==
    /\ lastEvent.type = "sampleLoaded"
    /\ Len(lastEvent.points) > 20
    /\ page.selections = <<>>
    /\ ~page.isLoadingSelection
    /\ Len(page.selectedAttributions.items) = 20

\* C10: an onSelected call issues no Sample request before every Attribution
\* request of the call is answered, and no Attribution is outstanding once a
\* Sample request is: the two batches never interleave.
SampleBatchFollowsAttributionBatch ==
    \A k \in DOMAIN page.selections :
        LET selection == page.selections[k]
        IN  /\ selection.attributionsLoaded < Len(selection.attributionRequests) =>
                  /\ selection.sampleRequests = <<>>
                  /\ selection.samplesLoaded = 0
            /\ selection.sampleRequests # <<>> =>
                  /\ selection.attributionsLoaded = Len(selection.attributionRequests)
                  /\ Len(selection.sampleRequests) = Len(selection.attributionRequests)

\* The last of several Attribution requests of a call has just been answered:
\* the Sample requests are issued, none answered yet.
SampleBatchIssued ==
    /\ lastEvent.type = "attributionLoaded"
    /\ \E k \in DOMAIN page.selections :
          /\ Len(page.selections[k].attributionRequests) > 1
          /\ page.selections[k].attributionsLoaded
                = Len(page.selections[k].attributionRequests)
          /\ Len(page.selections[k].sampleRequests)
                = Len(page.selections[k].attributionRequests)
          /\ page.selections[k].samplesLoaded = 0

\* The indices of the samples that the requests of a second batch fetch.
FetchedSampleIndices(selection) ==
    {SampleFor(selection.sampleRequests[i]).index :
        i \in DOMAIN selection.sampleRequests}

\* C11: when an onSelected call completes (its second batch has arrived and
\* selectedAttributions is there to be joined), every entry of
\* selectedAttributions has a sample of its own index when the call fetched
\* one, and has its sample unset when the call fetched none of that index;
\* the call reaches its end, where it clears isLoadingSelection.
JoinMatchesSamplesByIndex ==
    [][(/\ lastEvent'.type = "sampleLoaded"
        /\ Len(page'.selections) < Len(page.selections)
        /\ page.selectedAttributions # Null) =>
          LET fetched == FetchedSampleIndices(page.selections[lastEvent'.selection])
          IN  /\ page'.selectedAttributions # Null
              /\ Len(page'.selectedAttributions.items)
                    = Len(page.selectedAttributions.items)
              /\ \A i \in DOMAIN page'.selectedAttributions.items :
                    LET a == page'.selectedAttributions.items[i]
                    IN  /\ a.index = page.selectedAttributions.items[i].index
                        /\ IF a.index \in fetched
                           THEN a.sample # Null /\ a.sample.index = a.index
                           ELSE a.sample = Null
              /\ ~page'.isLoadingSelection
    ]_vars

\* A call has completed whose samples match one of the selected attributions
\* and not another, which is left without a sample.
JoinLeftAnAttributionWithoutSample ==
    /\ lastEvent.type = "sampleLoaded"
    /\ page.selectedAttributions # Null
    /\ \E i, j \in DOMAIN page.selectedAttributions.items :
          /\ page.selectedAttributions.items[i].sample # Null
          /\ page.selectedAttributions.items[i].sample.index
                = page.selectedAttributions.items[i].index
          /\ page.selectedAttributions.items[j].sample = Null

(***************************************************************************)
(* Properties of the hover handling.                                       *)
(***************************************************************************)
\* The hovers of a page that await their dataset sample.
AwaitingSample(s) == {k \in DOMAIN s.hovers : s.hovers[k].stage = "sample"}

\* C12: a hover event on point p of a series sets the hovering flag and
\* requests the Attribution of that series' attributionIndices[p] and nothing
\* else; a Sample is requested only when an Attribution of a hover arrives,
\* for the index that Attribution carries; and when the Sample arrives it
\* becomes the hover preview.
HoverLoadsAttributionThenSample ==
    [][/\ lastEvent'.type = "hover" =>
            LET point == lastEvent'.eventInfo.points[1]
            IN  /\ page'.isHovering
                /\ Len(page'.hovers) = Len(page.hovers) + 1
                /\ SubSeq(page'.hovers, 1, Len(page.hovers)) = page.hovers
                /\ page'.hovers[Len(page'.hovers)] =
                      [stage |-> "attribution",
                       request |->
                          [projectId |-> page.project.id,
                           index |-> point.data.attributionIndices[point.pointIndex + 1]]]
                /\ page'.datasetSampleHoverPreview = page.datasetSampleHoverPreview
       /\ lastEvent'.type = "hoverAttributionLoaded" =>
            LET k == lastEvent'.hover
                attribution == AttributionFor(page.hovers[k].request)
            IN  /\ page.hovers[k].stage = "attribution"
                /\ page'.hovers =
                      [page.hovers EXCEPT ![k] =
                          [stage |-> "sample",
                           request |-> [projectId |-> page.project.id,
                                        index |-> attribution.index]]]
                /\ page'.datasetSampleHoverPreview = page.datasetSampleHoverPreview
       /\ lastEvent'.type = "hoverSampleLoaded" =>
            LET k == lastEvent'.hover
            IN  /\ page.hovers[k].stage = "sample"
                /\ page'.datasetSampleHoverPreview = SampleFor(page.hovers[k].request)
                /\ page'.hovers = Without(page.hovers, k)
       /\ Cardinality(AwaitingSample(page')) > Cardinality(AwaitingSample(page)) =>
            lastEvent'.type = "hoverAttributionLoaded"
    ]_vars

\* The sample of the second point of a series has arrived for a hover over
\* that point and is the preview, while the mouse is over the plot.
HoverPreviewShown ==
    /\ lastEvent.type = "hoverSampleLoaded"
    /\ page.isHovering
    /\ page.hovers = <<>>
    /\ page.datasetSampleHoverPreview # Null
    /\ Len(page.graphData.series[1].attributionIndices) > 1
    /\ page.datasetSampleHoverPreview.index
          = page.graphData.series[1].attributionIndices[2]

\* C13: after an unhover event the hovering flag is false and the hover
\* preview is absent.
UnhoverClearsFlagAndPreview ==
    lastEvent.type = "unhover" =>
        /\ ~page.isHovering
        /\ page.datasetSampleHoverPreview = Null

\* The mouse left the plot while a preview was shown; the preview is gone.
UnhoverRemovedPreview ==
    /\ lastEvent.type = "unhover"
    /\ lastEvent.hadPreview
    /\ page.datasetSampleHoverPreview = Null
    /\ ~page.isHovering

(***************************************************************************)
(* Properties of deselection and of the selection's loading flag.          *)
(***************************************************************************)
\* C14: a deselect event leaves selectedAttributions absent and changes
\* nothing else: analysis, plot data, selectors, both loading flags and the
\* requests in flight are as before, and no request is issued.
DeselectOnlyClearsSelection ==
    [][lastEvent'.type = "deselect" =>
        /\ page'.selectedAttributions = Null
        /\ page'.analysis = page.analysis
        /\ page'.graphData = page.graphData
        /\ page'.isLoading = page.isLoading
        /\ page'.isLoadingSelection = page.isLoadingSelection
        /\ page'.analysisFetches = page.analysisFetches
        /\ page'.projectFetches = page.projectFetches
        /\ page'.selections = page.selections
        /\ page'.hovers = page.hovers
        /\ page'.calls = <<>>
        /\ page' = [Fields(page) EXCEPT !.selectedAttributions = Null]
    ]_vars

\* The user deselected while attributions were selected; none are now.
DeselectedASelection ==
    /\ lastEvent.type = "deselect"
    /\ lastEvent.hadSelection
    /\ page.selectedAttributions = Null

\* C15: a select event whose event object is absent, or whose point list is
\* empty, is a no-op: it issues no request and leaves selectedAttributions
\* and isLoadingSelection as they were.
EmptySelectionIsNoOp ==
    [][(/\ lastEvent'.type = "select"
        /\ \/ lastEvent'.eventInfo = Null
           \/ lastEvent'.eventInfo.points = <<>>) =>
        /\ page'.calls = <<>>
        /\ page'.selections = page.selections
        /\ page'.selectedAttributions = page.selectedAttributions
        /\ page'.isLoadingSelection = page.isLoadingSelection
    ]_vars

\* The same, of the absent event object alone.
AbsentSelectionIsNoOp ==
    [][(lastEvent'.type = "select" /\ lastEvent'.eventInfo = Null) =>
        page' = Fields(page)]_vars

\* C16: while the one onSelectedAsync call of a non-empty selection is in
\* progress, from its start through both batches of requests,
\* isLoadingSelection is set; once its last sample has arrived and the join is
\* done, isLoadingSelection is clear.
LoadingSelectionSpansTheCall ==
    /\ page.selections # <<>> =>
          /\ Len(page.selections) = 1
          /\ page.selections[1].points # <<>>
          /\ page.isLoadingSelection
    /\ (lastEvent.type = "sampleLoaded" /\ page.selections = <<>>) =>
          ~page.isLoadingSelection

\* A selection of two or more points has completed: every attribution holds
\* its sample and the loading flag is clear.
SelectionCompletedAndFlagCleared ==
    /\ lastEvent.type = "sampleLoaded"
    /\ Len(lastEvent.points) >= 2
    /\ page.selections = <<>>
    /\ page.selectedAttributions # Null
    /\ \A i \in DOMAIN page.selectedAttributions.items :
          page.selectedAttributions.items[i].sample # Null
    /\ ~page.isLoadingSelection

(***************************************************************************)
(* Properties of answers that arrive late.                                 *)
(***************************************************************************)
\* C17: no request is cancelled and no answer is checked against the current
\* selectors: a change of selectors removes no outstanding Analysis request,
\* and an answer that arrives becomes analysis whether or not its key is the
\* key of the current selectors.
LateAnswerIsAssigned ==
    [][/\ lastEvent'.type # "analysisLoaded" =>
            /\ Len(page'.analysisFetches) >= Len(page.analysisFetches)
            /\ SubSeq(page'.analysisFetches, 1, Len(page.analysisFetches))
                  = page.analysisFetches
       /\ lastEvent'.type = "analysisLoaded" =>
            /\ Len(page'.analysisFetches) = Len(page.analysisFetches) - 1
            /\ page'.analysis = AnalysisFor(lastEvent'.key, backend.points)
            /\ page'.graphData = GraphData(page'.analysis,
                                           page.horizontalAxisDimensionIndex,
                                           page.verticalAxisDimensionIndex)
    ]_vars

\* No request is outstanding and analysis is the answer for selectors other
\* than the current ones.
StaleAnalysisShown ==
    /\ page.analysisFetches = <<>>
    /\ page.projectFetches = <<>>
    /\ ~page.isLoading
    /\ lastEvent.type = "analysisLoaded"
    /\ lastEvent.key # CurrentKey(page)
    /\ page.analysis = AnalysisFor(lastEvent.key, backend.points)
    /\ page.analysis # AnalysisFor(CurrentKey(page), backend.points)

(***************************************************************************)
(* Properties of the requests a change of method issues.                   *)
(***************************************************************************)
\* C18: a change of the analysis method by the user, made with category,
\* clustering and embedding set, issues four Analysis requests and merges
\* none: one from the category setter (new method and category, clustering
\* and embedding still the old ones), one from the clustering setter
\* (embedding still the old one), one from the embedding setter and one from
\* the method setter itself, the last two with the same key.
MethodChangeIssuesFourRequests ==
    [][(/\ lastEvent'.type = "selectAnalysisMethod"
        /\ page.selectedCategory # Null
        /\ page.selectedClustering # None
        /\ page.selectedEmbedding # None) =>
        /\ Len(page'.calls) = 4
        /\ page'.analysisFetches = page.analysisFetches \o
              << AnalysisKey(page.project.id, lastEvent'.method.name,
                             page'.selectedCategory.name,
                             page.selectedClustering, page.selectedEmbedding),
                 AnalysisKey(page.project.id, lastEvent'.method.name,
                             page'.selectedCategory.name,
                             page'.selectedClustering, page.selectedEmbedding),
                 CurrentKey(page'),
                 CurrentKey(page') >>
    ]_vars

\* The user changed the method of a loaded page: four requests are
\* outstanding, the last two alike.
FourRequestsOutstanding ==
    /\ lastEvent.type = "selectAnalysisMethod"
    /\ Len(page.analysisFetches) = 4
    /\ page.analysisFetches[3] = page.analysisFetches[4]
    /\ page.analysisFetches[1] # page.analysisFetches[4]

(***************************************************************************)
(* Properties of requests that fail.                                       *)
(***************************************************************************)
\* C19: when an Analysis request fails, the loading flag stays as it is, analysis
\* and plotData keep their values and no request is issued in its place; a
\* set loading flag is cleared by the arrival of an Analysis only, so with no
\* request outstanding it stays set. Likewise, when an Attribution or Sample
\* request of a selection fails, isLoadingSelection stays as it is and no request
\* is issued, and a set isLoadingSelection is cleared only when a selection's
\* batches are complete.
FailedRequestLeavesLoadingFlagSet ==
    [][/\ lastEvent'.type = "analysisFailed" =>
            /\ page'.isLoading = page.isLoading
            /\ page'.analysis = page.analysis
            /\ page'.graphData = page.graphData
            /\ page'.calls = <<>>
            /\ Len(page'.analysisFetches) = Len(page.analysisFetches) - 1
       /\ (page.isLoading /\ ~page'.isLoading) =>
            /\ lastEvent'.type = "analysisLoaded"
            /\ page.analysisFetches # <<>>
       /\ lastEvent'.type \in {"attributionFailed", "sampleFailed"} =>
            /\ page'.isLoadingSelection = page.isLoadingSelection
            /\ page'.selectedAttributions = page.selectedAttributions
            /\ page'.calls = <<>>
            /\ Len(page'.selections) = Len(page.selections) - 1
       /\ (page.isLoadingSelection /\ ~page'.isLoadingSelection) =>
            /\ lastEvent'.type \in {"select", "attributionLoaded", "sampleLoaded"}
            /\ \/ page.selections # <<>>
               \/ lastEvent'.type = "select"
    ]_vars

\* The one Analysis request failed after a request of the one selection had
\* failed: no request is outstanding, both loading flags are set, and
\* analysis is still the one of the selectors before the user's change.
BothLoadingFlagsStuck ==
    /\ lastEvent.type = "analysisFailed"
    /\ page.analysisFetches = <<>>
    /\ page.selections = <<>>
    /\ budget.user = 0 /\ budget.plot = 0
    /\ page.isLoading
    /\ page.isLoadingSelection
    /\ page.analysis # AnalysisFor(CurrentKey(page), backend.points)

(***************************************************************************)
(* Properties of the gateways.                                             *)
(***************************************************************************)
\* The URL of an operation: the base URL, the path of the operation and the
\* key of the call.
UrlOf(operation, key) ==
    LET base == "http://localhost:8080"
        project == base \o "/api/projects/" \o
                   (IF operation \in {"analysis", "attribution", "sample"}
                    THEN ToString(key.projectId)
                    ELSE IF operation = "project" THEN ToString(key.id) ELSE "")
    IN  CASE operation = "projects" -> base \o "/api/projects"
          [] operation = "project" -> project
          [] operation = "analysis" ->
                project \o "/analyses/" \o key.analysisMethod
                    \o "?category=" \o key.category
                    \o "&clustering=" \o key.clustering
                    \o "&embedding=" \o key.embedding
          [] operation = "attribution" ->
                project \o "/attributions/" \o ToString(key.index)
          [] operation = "sample" ->
                project \o "/dataset/" \o ToString(key.index)
          [] operation = "colorMaps" -> base \o "/api/color-maps"

\* C20: every call of a gateway operation sends exactly one request, a GET to
\* the URL made of the base URL, the operation's path and the call's key,
\* whatever was requested or answered before; the answer or failure of a
\* request sends none.
GatewayCallSendsOneGet ==
    [][/\ lastEvent'.type = "call" =>
            backend'.requests = Append(backend.requests,
                [method |-> "GET",
                 url |-> UrlOf(lastEvent'.operation, lastEvent'.key),
                 state |-> "pending"])
       /\ lastEvent'.type \in {"answered", "failed"} =>
            /\ Len(backend'.requests) = Len(backend.requests)
            /\ \A i \in DOMAIN backend.requests :
                  backend'.requests[i].url = backend.requests[i].url
    ]_vars

\* A gateway was called with a key it had been called with before, the
\* earlier request already answered: both requests were sent.
SameKeyRequestedTwice ==
    /\ lastEvent.type = "call"
    /\ lastEvent.operation = "analysis"
    /\ Len(backend.requests) = 2
    /\ backend.requests[1].url = backend.requests[2].url
    /\ backend.requests[2].url =
          "http://localhost:8080/api/projects/1/analyses/lrp"
              \o "?category=cat-1&clustering=kmeans-5&embedding=tsne"
    /\ backend.requests[1].state = "answered"
    /\ backend.requests[2].state = "pending"

(***************************************************************************)
(* Properties of the entities.                                             *)
(***************************************************************************)
\* The value of the url field of the i-th entity, and of the entries of the
\* urls object it refers to.
UrlPrefixedOnce(i) ==
    LET entity == backend.entities[i]
    IN  entity.url = apiBaseUrl \o backend.received[entity.kind].url
UrlsPrefixedOnce(i) ==
    LET entity == backend.entities[i]
        received == backend.received[entity.kind].urls
    IN  entity.kind = "attribution" =>
            \A colorMap \in DOMAIN received :
                backend.heap[entity.urls].urls[colorMap]
                    = apiBaseUrl \o received[colorMap]

\* C21: of every Sample, ColorMap and Attribution made of a payload, the url
\* field and every entry of an Attribution's urls are the base URL followed
\* by the relative URL the backend sent, also when the payload object is
\* mapped more than once.
EveryUrlPrefixedOnce ==
    \A i \in DOMAIN backend.entities : UrlPrefixedOnce(i) /\ UrlsPrefixedOnce(i)

\* The same, of the url fields alone.
UrlFieldsPrefixedOnce ==
    \A i \in DOMAIN backend.entities : UrlPrefixedOnce(i)

\* The same, of the payloads that were mapped once.
MappedOncePrefixedOnce ==
    \A i \in DOMAIN backend.entities :
        (\A j \in DOMAIN backend.entities :
            backend.entities[j].kind = backend.entities[i].kind => j = i)
        => UrlPrefixedOnce(i) /\ UrlsPrefixedOnce(i)

(***************************************************************************)
(* Properties of the comparison slider.                                    *)
(***************************************************************************)
\* C22: a pointer move by d pixels during a drag moves the left offset of the
\* handle by d pixels and the right boundary of the clip rectangle by d
\* pixels, whatever the widths of image and handle.
DragMovesHandleAndClipByDelta ==
    [][(lastEvent'.type = "mousemove" /\ slider.isMouseDown) =>
        LET d == lastEvent'.clientX - slider.sliderHandlePosition
        IN  /\ slider'.left = slider.left + 2 * d
            /\ slider'.clip.right = slider.clip.right + 2 * d
    ]_vars

\* The same, of a handle whose left offset is a whole number of pixels.
DragFromWholePixelMovesByDelta ==
    [][(/\ lastEvent'.type = "mousemove" /\ slider.isMouseDown
        /\ slider.left % 2 = 0) =>
        LET d == lastEvent'.clientX - slider.sliderHandlePosition
        IN  /\ slider'.left = slider.left + 2 * d
            /\ slider'.clip.right = slider.clip.right + 2 * d
    ]_vars

\* C23: a drag starts on a press on the handle only, and a button-up or a
\* mouseleave of the document ends it; the left offset of the handle and the
\* clip rectangle change during a drag only, so after the end of a drag
\* pointer moves leave both as they are until the next press.
DragOnlyBetweenPressAndRelease ==
    [][/\ (~slider.isMouseDown /\ slider'.isMouseDown) =>
            lastEvent'.type = "mousedown"
       /\ lastEvent'.type = "mousedown" => slider'.isMouseDown
       /\ lastEvent'.type \in {"mouseup", "mouseleave"} => ~slider'.isMouseDown
       /\ (slider.initialized /\ ~slider.isMouseDown) =>
            /\ slider'.left = slider.left
            /\ slider'.clip = slider.clip
       /\ (slider'.left # slider.left \/ slider'.clip # slider.clip) =>
            \/ lastEvent'.type = "ngAfterViewInit"
            \/ lastEvent'.type = "mousemove" /\ slider.isMouseDown
    ]_vars

\* After a drag that moved the handle was ended, the pointer moved over the
\* handle: the handle is where the drag left it.
MovedAfterDragEnded ==
    /\ lastEvent.type = "mousemove"
    /\ ~slider.isMouseDown
    /\ slider.sliderHandlePosition # Undefined
    /\ lastEvent.clientX # slider.sliderHandlePosition
    /\ slider.left # slider.imageWidth - slider.sliderHandleWidth

\* C24: when the view has been initialized, the handle is centred on the
\* horizontal midpoint of the image (left offset imageWidth / 2 -
\* handleWidth / 2) and the clip rectangle ends at the midpoint (right
\* boundary imageWidth / 2); in half pixels, imageWidth - handleWidth and
\* imageWidth.
FirstRenderCentresHandle ==
    lastEvent.type = "ngAfterViewInit" =>
        /\ slider.left = slider.imageWidth - slider.sliderHandleWidth
        /\ slider.left + slider.sliderHandleWidth = slider.clip.right
        /\ slider.clip.right = slider.imageWidth
        /\ ~slider.isMouseDown

\* The view of a slider was initialized whose image is narrower than its
\* handle and of odd width: the offset is negative and not whole.
NarrowSliderInitialized ==
    /\ lastEvent.type = "ngAfterViewInit"
    /\ slider.left < 0
    /\ slider.left % 2 = 1

(***************************************************************************)
(* Properties of the setters called with nothing to work on.               *)
(***************************************************************************)
\* C25: while analysis is absent, the plot data is retained: assigning an
\* absent analysis, and assigning an axis index while analysis is absent,
\* leave plotData exactly as it was.
AbsentAnalysisRetainsPlotData ==
    [][(\/ lastEvent'.type = "setAnalysis" /\ lastEvent'.absent
        \/ /\ lastEvent'.type \in {"setHorizontalAxis", "setVerticalAxis"}
           /\ page.analysis = Null) =>
        /\ page'.analysis = Null
        /\ page'.graphData = page.graphData
    ]_vars

\* An axis index was changed while analysis was absent and plot data of an
\* earlier analysis was there: the plot data is still there.
AxisChangedWithoutAnalysis ==
    /\ lastEvent.type = "setHorizontalAxis"
    /\ page.analysis = Null
    /\ page.graphData # Null
    /\ page.horizontalAxisDimensionIndex = 1
    /\ page.graphData.series # <<>>

\* C27: assigning no analysis method changes selectedAnalysisMethod and
\* nothing else: category, clustering, embedding, the axis indices, analysis
\* and the loading flag are as before and no Analysis request is issued.
ClearingMethodDoesNotCascade ==
    [][lastEvent'.type = "setAnalysisMethod" =>
        /\ page'.selectedAnalysisMethod = Null
        /\ page'.selectedCategory = page.selectedCategory
        /\ page'.selectedClustering = page.selectedClustering
        /\ page'.selectedEmbedding = page.selectedEmbedding
        /\ page'.horizontalAxisDimensionIndex = page.horizontalAxisDimensionIndex
        /\ page'.verticalAxisDimensionIndex = page.verticalAxisDimensionIndex
        /\ page'.analysis = page.analysis
        /\ page'.isLoading = page.isLoading
        /\ page'.analysisFetches = page.analysisFetches
        /\ page'.calls = <<>>
        /\ page' = [Fields(page) EXCEPT !.selectedAnalysisMethod = Null]
    ]_vars

\* The method of a page with all selectors set was cleared: the other
\* selectors are still set.
MethodClearedSelectorsKept ==
    /\ lastEvent.type = "setAnalysisMethod"
    /\ lastEvent.hadMethod
    /\ page.selectedAnalysisMethod = Null
    /\ page.selectedCategory # Null
    /\ page.selectedClustering # None
    /\ page.selectedEmbedding # None

(***************************************************************************)
(* Properties of selections whose points share attribution indices.        *)
(***************************************************************************)
\* The attribution indices a selection asked Attributions for.
RequestedIndices(selection) ==
    {selection.attributionRequests[i].index : i \in DOMAIN selection.attributionRequests}

\* C26: the second batch of a selection holds one Sample request per distinct
\* attribution index: as many requests as there are distinct indices among
\* the selected points.
OneSampleRequestPerDistinctIndex ==
    \A k \in DOMAIN page.selections :
        page.selections[k].sampleRequests # <<>> =>
            Len(page.selections[k].sampleRequests)
                = Cardinality(RequestedIndices(page.selections[k]))

\* The second batch holds one Sample request per Attribution of the first.
OneSampleRequestPerAttribution ==
    \A k \in DOMAIN page.selections :
        page.selections[k].sampleRequests # <<>> =>
            /\ Len(page.selections[k].sampleRequests)
                  = Len(page.selections[k].attributionRequests)
            /\ \A i \in DOMAIN page.selections[k].sampleRequests :
                  page.selections[k].sampleRequests[i].index
                      = page.selections[k].attributionRequests[i].index

(***************************************************************************)
(* Properties of the order of the plot data.                               *)
(***************************************************************************)
\* C28: plotData has one series per distinct cluster, the series ordered by
\* the first appearance of their cluster in the embedding list; in each
\* series x, y and attributionIndices are equally long, and their i-th
\* entries are the value at the horizontal axis index, the value at the
\* vertical axis index and the attribution index of the i-th point of the
\* cluster in list order.
PlotDataOrderedByFirstAppearance ==
    page.analysis # Null =>
        LET points == page.analysis.embedding
            series == page.graphData.series
            horizontal == page.horizontalAxisDimensionIndex
            vertical == page.verticalAxisDimensionIndex
        IN  /\ Len(series) = Cardinality({points[i].cluster : i \in DOMAIN points})
            /\ \A j \in DOMAIN series :
                  PositionsIn(points, series[j].name, 1) # <<>>
            /\ \A j, k \in DOMAIN series :
                  j < k => PositionsIn(points, series[j].name, 1)[1]
                              < PositionsIn(points, series[k].name, 1)[1]
            /\ \A j \in DOMAIN series :
                  LET positions == PositionsIn(points, series[j].name, 1)
                  IN  /\ Len(series[j].x) = Len(positions)
                      /\ Len(series[j].y) = Len(positions)
                      /\ Len(series[j].attributionIndices) = Len(positions)
                      /\ \A i \in DOMAIN positions :
                            /\ series[j].x[i] = points[positions[i]].value[horizontal + 1]
                            /\ series[j].y[i] = points[positions[i]].value[vertical + 1]
                            /\ series[j].attributionIndices[i]
                                  = points[positions[i]].attributionIndex

\* An analysis whose first point is in the cluster with the greater identifier
\* is plotted, the horizontal axis moved to the third dimension: the series
\* of that cluster comes first.
LaterClusterPlottedFirst ==
    /\ page.analysis # Null
    /\ page.horizontalAxisDimensionIndex = 2
    /\ Len(page.graphData.series) = 2
    /\ page.graphData.series[1].name > page.graphData.series[2].name
    /\ Len(page.graphData.series[1].x) = 2
    /\ page.graphData.series[1].attributionIndices[1]
          # page.graphData.series[1].attributionIndices[2]

(***************************************************************************)
(* Properties of the consistency of the selectors.                         *)
(***************************************************************************)
\* The elements of a sequence.
Range(seq) == {seq[i] : i \in DOMAIN seq}

\* The key names a method of its project, and a category, a clustering and an
\* embedding of that method.
ConsistentKey(key) ==
    /\ key.projectId \in ProjectIds
    /\ \E method \in Range(Projects[key.projectId].analysisMethods) :
          /\ method.name = key.analysisMethod
          /\ key.category \in {category.name : category \in Range(method.categories)}
          /\ key.clustering \in Range(method.clusterings)
          /\ key.embedding \in Range(method.embeddings)

\* C29: every Analysis request is keyed by a consistent tuple: its category,
\* clustering and embedding belong to its method, and its method to its
\* project; the requests of a cascade through the setters included.
EveryRequestKeyConsistent ==
    \A i \in DOMAIN page.analysisFetches : ConsistentKey(page.analysisFetches[i])

\* The same, of the last request of every handler.
LastRequestKeyConsistent ==
    (page.calls # <<>> /\ page.analysisFetches # <<>>) =>
        ConsistentKey(page.analysisFetches[Len(page.analysisFetches)])

\* C30: after every handler the selectors are consistent: the selected method
\* is unset or one of the methods of the project, and the category, the
\* clustering and the embedding, where set, are among those of the selected
\* method.
SelectorsConsistent ==
    LET method == page.selectedAnalysisMethod
    IN  /\ method # Null =>
              /\ page.project # Null
              /\ method \in Range(page.project.analysisMethods)
        /\ page.selectedCategory # Null =>
              /\ method # Null
              /\ page.selectedCategory \in Range(method.categories)
        /\ page.selectedClustering # None =>
              /\ method # Null
              /\ page.selectedClustering \in Range(method.clusterings)
        /\ page.selectedEmbedding # None =>
              /\ method # Null
              /\ page.selectedEmbedding \in Range(method.embeddings)

\* The user changed to a method that has neither the clustering nor the
\* embedding of the method before: the selectors are those of the new method.
ChangedToMethodWithOtherClusterings ==
    /\ lastEvent.type = "selectAnalysisMethod"
    /\ page.selectedAnalysisMethod.name = "lrp"
    /\ page.selectedAnalysisMethod.clusterings = <<"kmeans-5", "kmeans-10">>
    /\ page.selectedClustering = "kmeans-5"
    /\ page.selectedEmbedding = "tsne"
    /\ \E i \in DOMAIN page.analysisFetches :
          page.analysisFetches[i].clustering = "dbscan"

(***************************************************************************)
(* The loading flag and the requests in flight.                            *)
(***************************************************************************)
\* C31: the loading flag is set in every state in which a project request or
\* an Analysis request is in flight, also when several Analysis requests
\* overlap: the answer to one never clears the flag while another is still
\* outstanding.
LoadingWhileRequestInFlight ==
    (page.projectFetches # <<>> \/ page.analysisFetches # <<>>) => page.isLoading

\* What the flag does tell: a handler that issues an Analysis request leaves
\* the flag set.
IssuingARequestSetsLoading ==
    [][Len(page'.analysisFetches) > Len(page.analysisFetches) => page'.isLoading]_vars

(***************************************************************************)
(* The Analysis on display when the backend answers in order.              *)
(***************************************************************************)
\* C32: when the answers arrive in the order of their requests and no request
\* fails, then in every state where no Analysis request is in flight and all
\* four selectors are set, the analysis is the answer to the request keyed by
\* the project's id and the current method, category, clustering and
\* embedding.
SettledAnalysisIsOfCurrentSelectors ==
    (page.analysisFetches = <<>> /\ ~SelectionIncomplete(page))
        => page.analysis = Answer(CurrentKey(page))

\* Clustering and embedding were both changed and every answer has arrived.
TwoSelectorsChangedAndAnswered ==
    /\ page.project.id = 2
    /\ page.selectedClustering = "kmeans-10"
    /\ page.selectedEmbedding = "pca"
    /\ page.analysisFetches = <<>>
    /\ lastEvent.type = "analysisLoaded"

(***************************************************************************)
(* The plot data and the axis indices it is built from.                    *)
(***************************************************************************)
\* C33: in every state where an analysis is present, the plot data is the
\* partition computed from the current analysis and the current horizontal and
\* vertical axis indices, also right after the embedding has been set (which
\* resets the axis indices) and while its Analysis request is in flight.
PlotDataFollowsItsInputs ==
    page.analysis # Null =>
        page.graphData = GraphData(page.analysis,
                                   page.horizontalAxisDimensionIndex,
                                   page.verticalAxisDimensionIndex)

\* C34: whenever the plot data is computed again (an Analysis arrives or an
\* axis is chosen), the horizontal and the vertical axis index are dimension
\* indices of the current analysis.
PlotComputedFromValidAxes ==
    (/\ lastEvent.type \in {"analysisLoaded", "selectHorizontalAxis",
                            "selectVerticalAxis"}
     /\ page.analysis # Null)
        => /\ ~NotIn(EmbeddingDimensions(page), page.horizontalAxisDimensionIndex)
           /\ ~NotIn(EmbeddingDimensions(page), page.verticalAxisDimensionIndex)

(***************************************************************************)
(* The hover preview when hovers overlap.                                  *)
(***************************************************************************)
\* The preview that is visible is of the point hovered last.
VisiblePreviewIsOfLastHover ==
    (page.isHovering /\ page.datasetSampleHoverPreview # Null)
        => page.datasetSampleHoverPreview
              = SampleFor(IndexKey(page.project.id, LastHovered))

\* No preview is present while the hovering flag is cleared, that is, after an
\* unhover that no hover has followed.
NoPreviewAfterUnhover ==
    ~page.isHovering => page.datasetSampleHoverPreview = Null

\* C35: whenever the hover preview is visible (the hovering flag is set and a
\* preview is present) the preview is the Sample of the point hovered last;
\* and once an unhover has occurred with no later hover the preview stays
\* absent, also when requests of an earlier hover are answered afterwards.
PreviewIsOfLastHover == VisiblePreviewIsOfLastHover /\ NoPreviewAfterUnhover

(***************************************************************************)
(* Selections that overlap each other and deselections.                    *)
(***************************************************************************)
\* C36: every onSelectedAsync call whose Attribution and Sample requests are
\* all answered runs to its end without raising (the selected attributions it
\* iterates when its Samples have arrived are present) and clears the loading
\* flag of the selection, whatever deselections and other selections happen
\* while its requests are in flight.
AnsweredSelectionEndsWithoutRaising ==
    [][(/\ lastEvent'.type \in {"attributionLoaded", "sampleLoaded"}
        /\ Len(page'.selections) < Len(page.selections))
          => /\ lastEvent'.type = "sampleLoaded" => page.selectedAttributions # Null
             /\ ~page'.isLoadingSelection]_vars

\* C37: in every state where the loading flag of the selection is cleared and
\* the selected attributions are not empty (the side panel renders the list),
\* every selected attribution has a sample, and the sample's index is the
\* attribution's, also when two onSelectedAsync calls overlap.
RenderedAttributionsHaveTheirSample ==
    (/\ ~page.isLoadingSelection
     /\ page.selectedAttributions # Null
     /\ Len(page.selectedAttributions.items) > 0)
        => \A i \in DOMAIN page.selectedAttributions.items :
              LET attribution == page.selectedAttributions.items[i]
              IN  /\ attribution.sample # Null
                  /\ attribution.sample.index = attribution.index

\* C38: once the selected attributions have been cleared by a deselect, they
\* stay absent until a later selection event: the answers to the requests of
\* a selection started before the deselect never assign them again.
ClearedSelectionStaysCleared ==
    ClearedSinceSelection => page.selectedAttributions = Null

(***************************************************************************)
(* The color maps.                                                         *)
(***************************************************************************)
\* The color map named "black-fire-red" when the list has one, else the first.
BlackFireRedOrFirst(colorMaps) ==
    IF \E i \in DOMAIN colorMaps : colorMaps[i].name = "black-fire-red"
    THEN colorMaps[CHOOSE i \in DOMAIN colorMaps :
                      colorMaps[i].name = "black-fire-red"]
    ELSE colorMaps[1]

\* When the color maps have arrived, the selected color map is the one named
\* "black-fire-red" if the list has one, else the first of the list.
DefaultColorMapSelected ==
    lastEvent.type = "colorMapsLoaded" =>
        /\ page.colorMaps = [items |-> ColorMapEntities(ServedColorMaps)]
        /\ page.selectedColorMap = BlackFireRedOrFirst(page.colorMaps.items)

\* Where the list of the selected attributions is rendered (the loading flag
\* of the selection is cleared and the selected attributions are not empty),
\* where the template reads selectedColorMap.name, a color map is selected.
RenderedListHasColorMap ==
    (/\ ~page.isLoadingSelection
     /\ page.selectedAttributions # Null
     /\ Len(page.selectedAttributions.items) > 0)
        => page.selectedColorMap # Null

\* C39: after the color maps have arrived the selected color map is the one
\* named "black-fire-red" if the list has one, else the first; and in every
\* state where the list of the selected attributions is rendered a color map
\* is selected, in whatever order the color map request and the requests of
\* the selection are answered.
ColorMapSelectedWhereverRead == DefaultColorMapSelected /\ RenderedListHasColorMap

====
